---------------------------- MODULE Spec2Model ----------------------------
(***************************************************************************)
(* A model of the point-in-time panel engine of ctrlaltdata.               *)
(*                                                                         *)
(*   SpecWalk  : the walk-forward harness of analysis.py                   *)
(*               (generate_dates, temporal_split_panel,                    *)
(*               apply_time_windowed_functions_serial)                     *)
(*   SpecAsof  : BaseFeaturesAccessor._asof_merge_feature of api.py        *)
(*   SpecIndex : get_index_from_datastream of panel_constructors.py        *)
(*   SpecWalkLive : SpecWalk with weak fairness of the running call        *)
(*   SpecLag   : the lagged-feature methods of analysis.py                 *)
(*   SpecCross : rank_on_date_by_key and quantile_on_date_by_key           *)
(*   SpecScale : _mean_center and _standardize of analysis.py              *)
(*   SpecSecurity : get_security_panel of panel_constructors.py            *)
(*   SpecGic   : get_gic_panel of panel_constructors.py                    *)
(*   SpecValidate : AnalysisAccessor._validate                             *)
(*   SpecResource : ResourceManager of resource.py under threads           *)
(*   SpecPath  : the serial and the Spark path, side by side               *)
(*                                                                         *)
(* Dates are integers (days), a timedelta is an integer number of days.    *)
(* A data frame is a sequence of row records (or, for the tables of the    *)
(* index reconstruction, a set of row records); a null cell is Null.       *)
(***************************************************************************)
EXTENDS Integers, Sequences, FiniteSets, TLC

VARIABLES
    \* ---- walk-forward harness ----
    panel0,            \* the panel as it was when the call started
    df,                \* the panel object handed to every invocation (shared)
    prediction_steps,
    burn_in_steps,
    lookback,
    train_lt,          \* "" or the name of the train_lt column
    functions,         \* the registered functions, by __name__
    wpc,               \* position in apply_time_windowed_functions_serial
    i,                 \* enumerate index of generate_dates (0-based)
    date_infos,        \* the windows generate_dates has yielded so far
    to_run,            \* one entry per window: date_info and its three slices
    fk,                \* index of the function being mapped over to_run
    wj,                \* index of the window the function is applied to next
    cur,               \* the list comprehension's partial result
    results,           \* the result mapping, function name -> list
    received,          \* the inputs handed to the latest invocation
    \* ---- _asof_merge_feature ----
    asof_obj,          \* self._obj of the features accessor
    feature,           \* the feature table handed to the merge
    exact_match_allowed,
    apc,               \* "ready" before the call, "merged" after it
    asof_existing,     \* the panel's column of the feature's name: Null when
                       \* it has none, else Some(its values, row by row)
    asof_columns,      \* the names of the panel's columns, in order
    asof_warnings,     \* the warnings logged so far
    \* ---- get_index_from_datastream ----
    call,              \* the index_code and index_name the call is made with
    index_code,        \* the parameter index_code, which the name lookup may set
    queries,           \* the queries issued to the database so far, in order
    keep_in_index_only,
    membership,        \* the constituents query's result
    panel,             \* the date x infocode grid, then its resolved form
    timed_match,       \* the point-in-time infocode -> security key mapping
    fill_values,       \* the grid rows matched to a point-in-time mapping
    simple_query,      \* the current (not point-in-time) mapping
    new_panel,         \* the grid rows with their security keys
    index_panel,       \* the panel get_index_from_datastream returns
    ipc,               \* position in get_index_from_datastream
    raised,            \* the exception the call ended with, if any
    \* ---- the lag methods of the analysis accessor ----
    lag_obj0,          \* the panel the accessor was made for
    lag_obj,           \* the panel the method returns
    lag_arg,           \* the lag (in steps) or the offset (in days) of the call
    lpc,               \* "ready", then the name of the method that ran
    \* ---- the cross-sectional methods of the analysis accessor ----
    cross_obj0,        \* the panel the accessor was made for
    cross_obj,         \* the panel the method returns
    cross_call,        \* the method called and its arguments
    cpc,               \* "ready", then "returned" or "raised"
    cross_raised,      \* the exception the call ended with, if any
    \* ---- _mean_center and _standardize of the analysis accessor ----
    scale_obj0,        \* the subpanel the method is called with
    scale_obj,         \* the panel the method returns
    scale_call,        \* the method called and its key argument
    spc,               \* "ready", then "returned"
    \* ---- get_security_panel ----
    security_args,     \* since, until, cusips, sedols and frequency of the call
    security_panel,    \* the panel get_security_panel returns
    security_raised,   \* the exception the call ended with, if any
    secpc,             \* "ready", then "returned" or "raised"
    \* ---- get_gic_panel ----
    gic_args,          \* index, gic and renormalize_weights of the call
    gic_source,        \* the index panel with its gic column, before the filter
    gic_panel,         \* the panel get_gic_panel returns
    gic_raised,        \* the exception the call ended with, if any
    gpc,               \* "ready", then "returned" or "raised"
    \* ---- AnalysisAccessor._validate ----
    validate_columns,  \* the columns of the table handed to _validate
    validate_raised,   \* the exception the call ended with, if any
    validate_warnings, \* the warnings logged so far
    vpc,               \* "ready", then "returned" or "raised"
    \* ---- ResourceManager ----
    enabled_modules,   \* config.enabled_modules
    has_resources,     \* the shared state has the attribute resources
    resources,         \* Borg._shared_state['resources']: name -> object
    threads,           \* each thread's position, current resource and object
    constructed,       \* how often each resource's constructor has run
    returned,          \* the accesses that returned: thread, resource, object
    resource_raised,   \* the exceptions accesses ended with
    overlapped,        \* a call began while another thread's call was running
    \* ---- the serial and the Spark path of apply_time_windowed_functions ----
    path_args,         \* the panel, the parameters and the functions of the call
    serial_results,    \* what the serial path returns, once it has run
    spark_results      \* what the Spark path returns, once it has run

walkVars == <<panel0, df, prediction_steps, burn_in_steps, lookback, train_lt,
              functions, wpc, i, date_infos, to_run, fk, wj, cur, results,
              received>>

asofVars == <<asof_obj, feature, exact_match_allowed, apc, asof_existing,
              asof_columns, asof_warnings>>

indexArgVars == <<call, index_code, queries>>

indexVars == <<indexArgVars, keep_in_index_only, membership, panel, timed_match, fill_values,
               simple_query, new_panel, index_panel, ipc, raised>>

lagVars == <<lag_obj0, lag_obj, lag_arg, lpc>>

crossVars == <<cross_obj0, cross_obj, cross_call, cpc, cross_raised>>

scaleVars == <<scale_obj0, scale_obj, scale_call, spc>>

securityVars == <<security_args, security_panel, security_raised, secpc>>

gicVars == <<gic_args, gic_source, gic_panel, gic_raised, gpc>>

validateVars == <<validate_columns, validate_raised, validate_warnings, vpc>>

resourceVars == <<enabled_modules, has_resources, resources, threads, constructed, returned, resource_raised, overlapped>>

pathVars == <<path_args, serial_results, spark_results>>

vars == <<walkVars, asofVars, indexVars, lagVars, crossVars, scaleVars, securityVars, gicVars, validateVars, resourceVars, pathVars>>

\* a null cell, and a cell that holds the value v, of a column that may have nulls
Null == <<>>

Some(v) == <<v>>

(***************************************************************************)
(* Bounds of the model.                                                    *)
(***************************************************************************)
MaxDate == 4         \* panel dates are 1..MaxDate
NumKeys == 2         \* securities of the panel
MaxFns == 2          \* number of registered functions
AsofMaxDate == 3     \* dates of the merged tables are 1..AsofMaxDate
MaxPanelRows == 2    \* rows of the panel handed to the merge
MaxFeatureRows == 2  \* rows of the feature table
IndexMaxDate == 2    \* the evaluation dates of the index panel are 1..IndexMaxDate
NumInfocodes == 2    \* infocodes the data source knows
MaxMembership == 2   \* rows of the constituents query's result
MaxTimed == 2        \* rows of the point-in-time mapping
MaxNow == 2          \* rows of the current mapping
MaxLagDates == 3     \* the lagged panel has at most this many dates
MaxLagRows == 3      \* rows of the lagged panel
MaxLag == 2          \* the discrete lags are -MaxLag..MaxLag
PanelStep == 2       \* days between two consecutive dates of the lagged panel
MaxCrossRows == 3    \* rows of the panel ranked or quantiled
MaxFeatureValue == 3 \* its feature values are 1..MaxFeatureValue

\* the default lookback of apply_time_windowed_functions, in days (100 * 365)
DefaultLookback == 36500

\* get_index_from_datastream's default index_code, the FTSE 100
DefaultIndexCode == 3670

(***************************************************************************)
(* Generic helpers.                                                        *)
(***************************************************************************)
SetMin(S) == CHOOSE x \in S : \A y \in S : x <= y

SetMax(S) == CHOOSE x \in S : \A y \in S : x >= y

RECURSIVE SortSet(_)
\* sorted(...) over a set of distinct values, ascending
SortSet(S) == IF S = {} THEN <<>> ELSE <<SetMin(S)>> \o SortSet(S \ {SetMin(S)})

Range(s) == {s[x] : x \in DOMAIN s}

SeqsUpTo(S, n) == UNION {[1..m -> S] : m \in 0..n}


(***************************************************************************)
(* The walk-forward harness (analysis.py).                                 *)
(*                                                                         *)
(* A panel row has a date, a security key, the value of the column that    *)
(* train_lt may name (the time the row's information became available)     *)
(* and a feature value.  The row with key k of a date d became available   *)
(* k - 1 days after d, so rows with key 1 are timely and the others late.  *)
(***************************************************************************)
TrainLtColumn == "available"

Row(d, k) == [date |-> d, security_key |-> k, available |-> d + k - 1, feature |-> k]

RECURSIVE RowsOf(_, _)
\* the rows of the dates of D from d on: one row per security and date
RowsOf(D, d) ==
    IF d > MaxDate THEN <<>>
    ELSE (IF d \in D THEN [k \in 1..NumKeys |-> Row(d, k)] ELSE <<>>)
         \o RowsOf(D, d + 1)

Panels == {RowsOf(D, 1) : D \in SUBSET (1..MaxDate)}

\* the largest prediction_steps for which a panel of MaxDate dates has a window
MaxPred == (MaxDate - 1) \div 2

\* the largest burn_in_steps that leaves a window when prediction_steps = 1
MaxBurn == MaxDate - 2

Lookbacks == {0, 1, DefaultLookback}

FnNames == {"f", "g"}

FunctionLists == {fs \in SeqsUpTo(FnNames, MaxFns) : fs = <<>> \/ fs[1] = "f"}

\* dates = [pd.to_datetime(d) for d in sorted(self._obj.date.unique())]
SortedDates(frame) == SortSet({frame[x].date : x \in DOMAIN frame})

\* dates[k] for the 0-based index k
DateAt(ds, k) == ds[k + 1]

\* a burn-in test that is off by one
EmitConditionStrictBurnIn(idx, ds, p, b) ==
    /\ idx > b
    /\ Len(ds) > idx + p
    /\ idx - p >= 0
    /\ DateAt(ds, idx) > DateAt(ds, 0)

\* the guard of the yield: the condition of line 336 and, nested in it, the
\* condition of line 340
EmitCondition(idx, ds, p, b) ==
    /\ idx >= b
    /\ Len(ds) > idx + p
    /\ idx - p >= 0
    /\ DateAt(ds, idx) > DateAt(ds, 0)

\* a window whose future date forgets the prediction step
DateInfoNoStep(idx, ds, p, lb, tl) ==
    [present_date |-> DateAt(ds, idx),
     past_begin   |-> DateAt(ds, idx) - lb,
     past_end     |-> DateAt(ds, idx),
     future_date  |-> DateAt(ds, idx),
     train_lt     |-> tl]

\* the dictionary generate_dates yields for index idx
DateInfo(idx, ds, p, lb, tl) ==
    [present_date |-> DateAt(ds, idx),
     past_begin   |-> DateAt(ds, idx) - lb,
     past_end     |-> DateAt(ds, idx),
     future_date  |-> DateAt(ds, idx + p),
     train_lt     |-> tl]

\* a past slice that ignores train_lt
PastSliceIgnoringTrainLt(frame, info) ==
    SelectSeq(frame, LAMBDA r :
        r.date <= info.past_end /\ r.date >= info.past_begin)

\* a past slice that leaves out the rows of past_end
PastSliceExclusiveEnd(frame, info) ==
    LET window == SelectSeq(frame, LAMBDA r :
                      r.date < info.past_end /\ r.date >= info.past_begin)
    IN  IF info.train_lt # ""
        THEN SelectSeq(window, LAMBDA r : r[info.train_lt] < info.past_end)
        ELSE window

\* df[(df.date <= past_end) & (df.date >= past_begin)], then the train_lt filter
PastSlice(frame, info) ==
    LET window == SelectSeq(frame, LAMBDA r :
                      r.date <= info.past_end /\ r.date >= info.past_begin)
    IN  IF info.train_lt # ""
        THEN SelectSeq(window, LAMBDA r : r[info.train_lt] < info.past_end)
        ELSE window

\* df[df.date == date_info["present_date"]]
PresentSlice(frame, info) == SelectSeq(frame, LAMBDA r : r.date = info.present_date)

\* df[df.date == date_info["future_date"]]
FutureSlice(frame, info) == SelectSeq(frame, LAMBDA r : r.date = info.future_date)

\* temporal_split_panel([df, date_info]); each slice is a copy
temporal_split_panel(frame, info) ==
    [info    |-> info,
     past    |-> PastSlice(frame, info),
     present |-> PresentSlice(frame, info),
     future  |-> FutureSlice(frame, info)]

\* an in-place modification of a frame, the one the unit test's
\* subtract_min_from_feature makes: panel[feature] = panel[feature] - min
SubtractMin(frame) ==
    IF frame = <<>> THEN frame
    ELSE LET m == SetMin({frame[x].feature : x \in DOMAIN frame})
         IN  [x \in DOMAIN frame |-> [frame[x] EXCEPT !.feature = @ - m]]

\* a collection that puts the newest result first
CollectedNewestFirst(partial, value) == <<value>> \o partial

\* [i for i in tqdm.tqdm(map(function, to_run))]: the next result is appended
Collected(partial, value) == Append(partial, value)

\* what the harness leaves alone
WalkFrame == UNCHANGED <<asofVars, indexVars, lagVars, crossVars, scaleVars, securityVars, gicVars, validateVars, resourceVars, pathVars>>

\* the other components at rest
AsofIdle ==
    /\ asof_obj = <<>>
    /\ feature = <<>>
    /\ exact_match_allowed = TRUE
    /\ apc = "idle"
    /\ asof_existing = Null
    /\ asof_columns = <<>>
    /\ asof_warnings = <<>>

IndexIdle ==
    /\ call = [passes_index_code |-> FALSE, index_code |-> Null,
               index_name |-> Null]
    /\ index_code = Null
    /\ queries = <<>>
    /\ keep_in_index_only = FALSE
    /\ membership = {}
    /\ panel = {}
    /\ timed_match = {}
    /\ fill_values = {}
    /\ simple_query = {}
    /\ new_panel = {}
    /\ index_panel = {}
    /\ ipc = "idle"
    /\ raised = ""

\* the lag methods at rest
LagIdle ==
    /\ lag_obj0 = <<>>
    /\ lag_obj = <<>>
    /\ lag_arg = 0
    /\ lpc = "idle"

\* no method called yet
NoCall == [method |-> "", ascending |-> TRUE, in_index |-> TRUE, quantiles |-> 0]

\* the cross-sectional methods at rest
CrossIdle ==
    /\ cross_obj0 = <<>>
    /\ cross_obj = <<>>
    /\ cross_call = NoCall
    /\ cpc = "idle"
    /\ cross_raised = ""

\* no scaling method called yet
NoScaleCall == [method |-> "", key |-> [is_str |-> FALSE, names |-> <<>>]]

\* the scaling methods at rest
ScaleIdle ==
    /\ scale_obj0 = <<>>
    /\ scale_obj = <<>>
    /\ scale_call = NoScaleCall
    /\ spc = "idle"

\* get_security_panel at rest
SecurityIdle ==
    /\ security_args = [since |-> 1, until |-> 1, cusips |-> <<>>,
                        sedols |-> <<>>, frequency |-> 1]
    /\ security_panel = <<>>
    /\ security_raised = ""
    /\ secpc = "idle"

\* get_gic_panel at rest
GicIdle ==
    /\ gic_args = [index |-> "sp_500", gic |-> <<>>, renormalize_weights |-> TRUE]
    /\ gic_source = <<>>
    /\ gic_panel = <<>>
    /\ gic_raised = ""
    /\ gpc = "idle"

\* _validate at rest
ValidateIdle ==
    /\ validate_columns = {}
    /\ validate_raised = ""
    /\ validate_warnings = <<>>
    /\ vpc = "idle"

\* a thread that has made no call
NoThread == [pc |-> "idle", resource |-> "", obj |-> 0, instantiated |-> FALSE,
             calls |-> 0]

\* the resource manager at rest
ResourceIdle ==
    /\ enabled_modules = {}
    /\ has_resources = FALSE
    /\ resources = <<>>
    /\ threads = <<>>
    /\ constructed = <<>>
    /\ returned = {}
    /\ resource_raised = {}
    /\ overlapped = FALSE

\* the two paths at rest
PathIdle ==
    /\ path_args = [df |-> <<>>, prediction_steps |-> 1, lookback |-> 0,
                    functions |-> <<>>]
    /\ serial_results = Null
    /\ spark_results = Null

NoInputs == [df |-> <<>>, window |-> 0, info |-> Null, past |-> <<>>,
             present |-> <<>>, future |-> <<>>]

WalkInit ==
    /\ panel0 \in Panels
    /\ df = panel0
    /\ prediction_steps \in 0..MaxPred
    /\ burn_in_steps \in 0..MaxBurn
    /\ lookback \in Lookbacks
    /\ train_lt \in {"", TrainLtColumn}
    /\ functions \in FunctionLists
    /\ wpc = "generate"
    /\ i = 0
    /\ date_infos = <<>>
    /\ to_run = <<>>
    /\ fk = 1
    /\ wj = 1
    /\ cur = <<>>
    /\ results = <<>>
    /\ received = NoInputs
    /\ AsofIdle
    /\ IndexIdle
    /\ LagIdle
    /\ CrossIdle
    /\ ScaleIdle
    /\ SecurityIdle
    /\ GicIdle
    /\ ValidateIdle
    /\ ResourceIdle
    /\ PathIdle

\* an iteration that yields and then passes over the next date
GenerateYieldSkippingADate ==
    /\ wpc = "generate"
    /\ i < Len(SortedDates(panel0))
    /\ EmitCondition(i, SortedDates(panel0), prediction_steps, burn_in_steps)
    /\ date_infos' = Append(date_infos,
                        DateInfo(i, SortedDates(panel0), prediction_steps,
                                 lookback, train_lt))
    /\ i' = i + 2
    /\ UNCHANGED <<panel0, df, prediction_steps, burn_in_steps, lookback,
                   train_lt, functions, wpc, to_run, fk, wj, cur, results,
                   received>>
    /\ WalkFrame

\* one iteration of the for loop of generate_dates that yields
GenerateYield ==
    /\ wpc = "generate"
    /\ i < Len(SortedDates(panel0))
    /\ EmitCondition(i, SortedDates(panel0), prediction_steps, burn_in_steps)
    /\ date_infos' = Append(date_infos,
                        DateInfo(i, SortedDates(panel0), prediction_steps,
                                 lookback, train_lt))
    /\ i' = i + 1
    /\ UNCHANGED <<panel0, df, prediction_steps, burn_in_steps, lookback,
                   train_lt, functions, wpc, to_run, fk, wj, cur, results,
                   received>>
    /\ WalkFrame

\* one iteration of the for loop of generate_dates that yields nothing
GenerateSkip ==
    /\ wpc = "generate"
    /\ i < Len(SortedDates(panel0))
    /\ ~EmitCondition(i, SortedDates(panel0), prediction_steps, burn_in_steps)
    /\ i' = i + 1
    /\ UNCHANGED <<panel0, df, prediction_steps, burn_in_steps, lookback,
                   train_lt, functions, wpc, date_infos, to_run, fk, wj, cur,
                   results, received>>
    /\ WalkFrame

\* the generator is exhausted: the list `dates` of the serial path is complete
GenerateExhausted ==
    /\ wpc = "generate"
    /\ i = Len(SortedDates(panel0))
    /\ wpc' = "split"
    /\ UNCHANGED <<panel0, df, prediction_steps, burn_in_steps, lookback,
                   train_lt, functions, i, date_infos, to_run, fk, wj, cur,
                   results, received>>
    /\ WalkFrame

\* map(self.temporal_split_panel, dates), one window at a time
Split ==
    /\ wpc = "split"
    /\ Len(to_run) < Len(date_infos)
    /\ to_run' = Append(to_run,
                     temporal_split_panel(df, date_infos[Len(to_run) + 1]))
    /\ UNCHANGED <<panel0, df, prediction_steps, burn_in_steps, lookback,
                   train_lt, functions, wpc, i, date_infos, fk, wj, cur,
                   results, received>>
    /\ WalkFrame

\* to_run is complete: the loop over the functions starts
SplitDone ==
    /\ wpc = "split"
    /\ Len(to_run) = Len(date_infos)
    /\ wpc' = "run"
    /\ UNCHANGED <<panel0, df, prediction_steps, burn_in_steps, lookback,
                   train_lt, functions, i, date_infos, to_run, fk, wj, cur,
                   results, received>>
    /\ WalkFrame

\* function(to_run[wj]): the function gets the objects to_run holds, may
\* modify in place the slices or the full panel, and returns a value that
\* tells which function saw which window
Invoke ==
    /\ wpc = "run"
    /\ fk <= Len(functions)
    /\ wj <= Len(to_run)
    /\ received' = [df |-> df, window |-> wj, info |-> to_run[wj].info,
                    past |-> to_run[wj].past, present |-> to_run[wj].present,
                    future |-> to_run[wj].future]
    /\ \E modifies \in {"nothing", "slices", "panel"} :
          /\ to_run' = IF modifies = "slices"
                       THEN [to_run EXCEPT ![wj] =
                               [info    |-> @.info,
                                past    |-> SubtractMin(@.past),
                                present |-> SubtractMin(@.present),
                                future  |-> SubtractMin(@.future)]]
                       ELSE to_run
          /\ df' = IF modifies = "panel" THEN SubtractMin(df) ELSE df
    /\ cur' = Collected(cur, [function |-> functions[fk],
                              present_date |-> to_run[wj].info.present_date])
    /\ wj' = wj + 1
    /\ UNCHANGED <<panel0, prediction_steps, burn_in_steps, lookback, train_lt,
                   functions, wpc, i, date_infos, fk, results>>
    /\ WalkFrame

\* results[function.__name__] = [...]: the comprehension over to_run is done
Collect ==
    /\ wpc = "run"
    /\ fk <= Len(functions)
    /\ wj > Len(to_run)
    /\ results' = [n \in DOMAIN results \cup {functions[fk]} |->
                       IF n = functions[fk] THEN cur ELSE results[n]]
    /\ cur' = <<>>
    /\ wj' = 1
    /\ fk' = fk + 1
    /\ UNCHANGED <<panel0, df, prediction_steps, burn_in_steps, lookback,
                   train_lt, functions, wpc, i, date_infos, to_run, received>>
    /\ WalkFrame

\* return results
Return ==
    /\ wpc = "run"
    /\ fk > Len(functions)
    /\ wpc' = "done"
    /\ UNCHANGED <<panel0, df, prediction_steps, burn_in_steps, lookback,
                   train_lt, functions, i, date_infos, to_run, fk, wj, cur,
                   results, received>>
    /\ WalkFrame

WalkNext ==
    \/ GenerateYield
    \/ GenerateSkip
    \/ GenerateExhausted
    \/ Split
    \/ SplitDone
    \/ Invoke
    \/ Collect
    \/ Return

SpecWalk == WalkInit /\ [][WalkNext]_vars

\* the call runs to its end: the loops of the generator and of the harness are
\* executed by one thread that is never suspended for ever
SpecWalkLive == WalkInit /\ [][WalkNext]_vars /\ WF_vars(WalkNext)


(***************************************************************************)
(* Claims about the walk-forward harness.                                  *)
(***************************************************************************)
dates == SortedDates(panel0)

\* the windows are those of the indexes the generator has gone through
Emitted(idx) == \E x \in DOMAIN date_infos :
                    date_infos[x].present_date = DateAt(dates, idx)

\* no function has been invoked yet: to_run holds the slices as they were cut
Untouched == wpc \in {"split", "run"} /\ received = NoInputs

\* C1: generate_dates emits a window for the 0-based index idx of the sorted
\* distinct dates if and only if idx >= burn_in_steps, idx + prediction_steps
\* < n, idx - prediction_steps >= 0 and dates[idx] > dates[0], each index at
\* most once; with prediction_steps = 1 and burn_in_steps = 0 the windows are
\* exactly those of idx = 1..n-2.
C1_EmitsIffCondition ==
    /\ \A idx \in 0..(i - 1) :
          Emitted(idx) <=> /\ idx >= burn_in_steps
                           /\ idx + prediction_steps < Len(dates)
                           /\ idx - prediction_steps >= 0
                           /\ dates[idx + 1] > dates[1]
    /\ Len(date_infos) = Cardinality({idx \in 0..(i - 1) : Emitted(idx)})
    /\ (wpc # "generate" /\ prediction_steps = 1 /\ burn_in_steps = 0) =>
          /\ {date_infos[x].present_date : x \in DOMAIN date_infos}
                = {dates[idx + 1] : idx \in 1..(Len(dates) - 2)}
          /\ Len(date_infos) = IF Len(dates) >= 2 THEN Len(dates) - 2 ELSE 0

C1_Witness ==
    /\ wpc = "split"
    /\ prediction_steps = 1
    /\ burn_in_steps = 0
    /\ Len(dates) = MaxDate
    /\ Len(date_infos) = MaxDate - 2
    /\ ~Emitted(0)
    /\ ~Emitted(MaxDate - 1)

\* C2: every window emitted with prediction_steps >= 1 has present_date =
\* past_end, past_begin = present_date - lookback, future_date = dates[idx +
\* prediction_steps] for the index idx of its present date, and past_end <
\* future_date.
C2_WindowFields ==
    prediction_steps >= 1 =>
        \A x \in DOMAIN date_infos :
            LET w == date_infos[x] IN
            /\ w.present_date = w.past_end
            /\ w.past_begin = w.present_date - lookback
            /\ \E idx \in 0..(Len(dates) - 1) :
                  /\ dates[idx + 1] = w.present_date
                  /\ idx + prediction_steps + 1 \in DOMAIN dates
                  /\ w.future_date = dates[idx + prediction_steps + 1]
            /\ w.past_end < w.future_date

C2_Witness ==
    /\ prediction_steps >= 1
    /\ lookback = 1
    /\ Len(date_infos) >= 2
    /\ date_infos[2].future_date > date_infos[2].present_date

\* C3: for every window (prediction_steps >= 1), no row of the past slice is
\* dated after present_date, every row of the future slice is dated strictly
\* after present_date, and when train_lt names a column every row of the past
\* slice has a value of that column strictly less than past_end.
C3_NoLookAhead ==
    (Untouched /\ prediction_steps >= 1) =>
        \A x \in DOMAIN to_run :
            LET e == to_run[x] IN
            /\ \A r \in DOMAIN e.past : e.past[r].date <= e.info.present_date
            /\ \A r \in DOMAIN e.future : e.future[r].date > e.info.present_date
            /\ train_lt # "" =>
                  \A r \in DOMAIN e.past :
                      e.past[r][train_lt] < e.info.past_end

C3_Witness ==
    /\ Untouched
    /\ prediction_steps >= 1
    /\ train_lt = TrainLtColumn
    /\ \E x \in DOMAIN to_run :
          /\ to_run[x].past # <<>>
          /\ to_run[x].future # <<>>
          /\ \E r \in DOMAIN df :
                /\ df[r].date < to_run[x].info.past_end
                /\ df[r].date >= to_run[x].info.past_begin
                /\ df[r][train_lt] >= to_run[x].info.past_end

\* a frame holds exactly the rows of the panel that satisfy Keep, once each
ExactlyRows(frame, Keep(_)) ==
    /\ Range(frame) = {panel0[r] : r \in {y \in DOMAIN panel0 : Keep(panel0[y])}}
    /\ Len(frame) = Cardinality({y \in DOMAIN panel0 : Keep(panel0[y])})

\* C4: with an empty train_lt, the past slice is exactly the panel rows with
\* past_begin <= date <= past_end, the present slice exactly the rows with
\* date = present_date, and the future slice exactly the rows with date =
\* future_date.
C4_SlicesExact ==
    (Untouched /\ train_lt = "") =>
        \A x \in DOMAIN to_run :
            LET e == to_run[x] IN
            /\ ExactlyRows(e.past, LAMBDA r : e.info.past_begin <= r.date
                                              /\ r.date <= e.info.past_end)
            /\ ExactlyRows(e.present, LAMBDA r : r.date = e.info.present_date)
            /\ ExactlyRows(e.future, LAMBDA r : r.date = e.info.future_date)

C4_Witness ==
    /\ Untouched
    /\ train_lt = ""
    /\ lookback = 1
    /\ \E x \in DOMAIN to_run :
          LET e == to_run[x] IN
          /\ \E r \in DOMAIN e.past : e.past[r].date = e.info.past_begin
          /\ \E r \in DOMAIN e.past : e.past[r].date = e.info.past_end
          /\ \E r \in DOMAIN panel0 : panel0[r].date < e.info.past_begin
          /\ e.present # <<>>
          /\ e.future # <<>>
          /\ e.future # e.present

\* C5: in the serial path the inputs handed to an invocation (full panel,
\* window descriptor, past, present, future) are those derived from the panel
\* as it was when the call started, whatever earlier invocations did to the
\* inputs they received.
C5_InputsUnaffected ==
    received.window # 0 =>
        LET info == date_infos[received.window] IN
        /\ received.df = panel0
        /\ received.info = info
        /\ received.past = PastSlice(panel0, info)
        /\ received.present = PresentSlice(panel0, info)
        /\ received.future = FutureSlice(panel0, info)

\* C6: in the serial path the result mapping has one entry per registered
\* function name, each entry has one result per emitted window, and its j-th
\* result is the function's return value for the j-th window, the windows
\* being in ascending order of present_date.
C6_ResultsTrackWindows ==
    wpc = "done" =>
        /\ DOMAIN results = Range(functions)
        /\ \A n \in DOMAIN results :
              /\ Len(results[n]) = Len(date_infos)
              /\ \A j \in DOMAIN date_infos :
                    results[n][j] =
                        [function |-> n,
                         present_date |-> date_infos[j].present_date]
        /\ \A j \in DOMAIN date_infos : \A k \in DOMAIN date_infos :
              j < k => date_infos[j].present_date < date_infos[k].present_date

C6_Witness ==
    /\ wpc = "done"
    /\ Cardinality(Range(functions)) = 2
    /\ Len(date_infos) >= 2
    /\ DOMAIN results = {"f", "g"}
    /\ Len(results["g"]) = Len(date_infos)


(***************************************************************************)
(* The temporal join (api.py, BaseFeaturesAccessor._asof_merge_feature).   *)
(*                                                                         *)
(* The merge is on 'date' by ['security_key', 'security_key_name'].  A     *)
(* feature row carries the feature's value, which names the row, and, as   *)
(* in the unit test, a copy of its own date in the column shifted_date.    *)
(***************************************************************************)
ByKeys == <<[security_key |-> "A", security_key_name |-> "cusip"],
            [security_key |-> "B", security_key_name |-> "sedol"],
            [security_key |-> "A", security_key_name |-> "sedol"]>>

\* the securities of the panel: the feature table also has rows of another
NumPanelKeys == Len(ByKeys) - 1

\* the c-th (key, date) cell, keys first
CellKey(c) == ByKeys[((c - 1) \div AsofMaxDate) + 1]

CellDate(c) == ((c - 1) % AsofMaxDate) + 1

NonDecreasing(cs) == \A x \in DOMAIN cs : \A y \in DOMAIN cs : x < y => cs[x] <= cs[y]

Increasing(cs) == \A x \in DOMAIN cs : \A y \in DOMAIN cs : x < y => cs[x] < cs[y]

\* panels: at most one row per security and date
AsofPanels ==
    {[x \in DOMAIN cs |->
        [security_key      |-> CellKey(cs[x]).security_key,
         security_key_name |-> CellKey(cs[x]).security_key_name,
         date              |-> CellDate(cs[x])]] :
     cs \in {c \in SeqsUpTo(1..(NumPanelKeys * AsofMaxDate), MaxPanelRows) :
                Increasing(c)}}

\* feature tables: any rows, several of one (key, date) included
FeatureTables ==
    {[x \in DOMAIN cs |->
        [security_key      |-> CellKey(cs[x]).security_key,
         security_key_name |-> CellKey(cs[x]).security_key_name,
         date              |-> CellDate(cs[x]),
         value             |-> x,
         shifted_date      |-> CellDate(cs[x])]] :
     cs \in {c \in SeqsUpTo(1..(Len(ByKeys) * AsofMaxDate), MaxFeatureRows) :
                NonDecreasing(c)}}

\* frame.sort_values('date'): rows of equal date come in an order the sort
\* algorithm decides
SortValues(frame) ==
    {s \in {[x \in DOMAIN frame |-> frame[q[x]]] : q \in Permutations(DOMAIN frame)} :
        \A x \in DOMAIN s : \A y \in DOMAIN s : x < y => s[x].date <= s[y].date}

RECURSIVE AdvanceAlways(_, _, _, _)
\* a scan that admits exact matches whatever the flag says
AdvanceAlways(right, pos, t, exact) ==
    IF pos <= Len(right) /\ right[pos].date <= t
    THEN AdvanceAlways(right, pos + 1, t, exact)
    ELSE pos

RECURSIVE Advance(_, _, _, _)
\* merge_asof's scan of the sorted right table: the first position from pos on
\* whose date is not <= t (not < t when exact matches are not allowed)
Advance(right, pos, t, exact) ==
    IF pos <= Len(right)
       /\ (IF exact THEN right[pos].date <= t ELSE right[pos].date < t)
    THEN Advance(right, pos + 1, t, exact)
    ELSE pos

\* a lookup that compares the security key alone
LatestByKeyOnly(right, upto, row) ==
    LET same == {r \in 1..upto : right[r].security_key = row.security_key}
    IN  IF same = {} THEN 0 ELSE SetMax(same)

\* merge_asof's `by` lookup: the latest scanned position of the right table
\* that equals the left row on every `by` column, 0 when there is none
LatestBy(right, upto, row) ==
    LET same == {r \in 1..upto :
                    /\ right[r].security_key = row.security_key
                    /\ right[r].security_key_name = row.security_key_name}
    IN  IF same = {} THEN 0 ELSE SetMax(same)

\* a merge that keeps only the left rows that found a right row
MergeAsofInner(left, right, exact) ==
    LET Found(l) == LatestBy(right, Advance(right, 1, l.date, exact) - 1, l) # 0
        kept == SelectSeq(left, Found)
    IN  [l \in DOMAIN kept |->
            LET found == LatestBy(right,
                                  Advance(right, 1, kept[l].date, exact) - 1,
                                  kept[l])
            IN  [security_key      |-> kept[l].security_key,
                 security_key_name |-> kept[l].security_key_name,
                 date              |-> kept[l].date,
                 value             |-> Some(right[found].value),
                 shifted_date      |-> Some(right[found].shifted_date)]]

\* pd.merge_asof(left, right, on='date', by=[...], allow_exact_matches=exact):
\* one output row per left row, in the left's order, with the matched right
\* row's other columns or nulls
MergeAsof(left, right, exact) ==
    [l \in DOMAIN left |->
        LET found == LatestBy(right, Advance(right, 1, left[l].date, exact) - 1,
                              left[l])
        IN  [security_key      |-> left[l].security_key,
             security_key_name |-> left[l].security_key_name,
             date              |-> left[l].date,
             value             |-> IF found = 0 THEN Null
                                   ELSE Some(right[found].value),
             shifted_date      |-> IF found = 0 THEN Null
                                   ELSE Some(right[found].shifted_date)]]

\* what the merge leaves alone
AsofFrame == UNCHANGED <<walkVars, indexVars, lagVars, crossVars, scaleVars, securityVars, gicVars, validateVars, resourceVars, pathVars>>

\* the harness at rest
WalkIdle ==
    /\ panel0 = <<>>
    /\ df = <<>>
    /\ prediction_steps = 1
    /\ burn_in_steps = 0
    /\ lookback = DefaultLookback
    /\ train_lt = ""
    /\ functions = <<>>
    /\ wpc = "idle"
    /\ i = 0
    /\ date_infos = <<>>
    /\ to_run = <<>>
    /\ fk = 1
    /\ wj = 1
    /\ cur = <<>>
    /\ results = <<>>
    /\ received = NoInputs

\* the columns of the panel and of the feature table; feature_name is 'value'
KeyColumns == <<"security_key", "security_key_name", "date">>

FeatureColumns == KeyColumns \o <<"value", "shifted_date">>

\* the panel's column of the feature's name before the call, when it has one:
\* the row x holds -x, which is no value of the feature table
ExistingColumn(obj) == Some([x \in DOMAIN obj |-> 0 - x])

\* the column list with the columns of that name left out
WithoutColumn(columns, name) ==
    LET Other(c) == c # name
    IN  SelectSeq(columns, Other)

\* an overwrite check that warns and keeps the column
WarnAndKeep(columns, existing, warnings, name) ==
    IF name \in Range(columns)
    THEN [columns |-> columns, existing |-> existing,
          warnings |-> Append(warnings, "Overwriting existing column 'value'.")]
    ELSE [columns |-> columns, existing |-> existing, warnings |-> warnings]

\* _warn_if_overwriting_and_delete: a column of the name is reported by a
\* warning and deleted from the panel
WarnIfOverwritingAndDelete(columns, existing, warnings, name) ==
    IF name \in Range(columns)
    THEN [columns |-> WithoutColumn(columns, name), existing |-> Null,
          warnings |-> Append(warnings, "Overwriting existing column 'value'.")]
    ELSE [columns |-> columns, existing |-> existing, warnings |-> warnings]

\* the columns of pd.merge_asof(left, right, on='date', by=[...]): the left's,
\* then the right's that are no key; a name that both have gets the suffixes
\* _x and _y
MergedColumns(left, right) ==
    LET Suffixed(columns, other, suffix) ==
            [c \in DOMAIN columns |->
                IF columns[c] \in Range(other) \ Range(KeyColumns)
                THEN columns[c] \o suffix ELSE columns[c]]
        NoKey(c) == c \notin Range(KeyColumns)
    IN  Suffixed(left, right, "_x") \o SelectSeq(Suffixed(right, left, "_y"), NoKey)

AsofInit ==
    /\ asof_obj \in AsofPanels
    /\ feature \in FeatureTables
    /\ exact_match_allowed \in BOOLEAN
    /\ apc = "ready"
    /\ asof_existing \in {Null, ExistingColumn(asof_obj)}
    /\ asof_columns = IF asof_existing = Null THEN KeyColumns
                      ELSE Append(KeyColumns, "value")
    /\ asof_warnings = <<>>
    /\ WalkIdle
    /\ IndexIdle
    /\ LagIdle
    /\ CrossIdle
    /\ ScaleIdle
    /\ SecurityIdle
    /\ GicIdle
    /\ ValidateIdle
    /\ ResourceIdle
    /\ PathIdle

\* _asof_merge_feature(feature, feature_name): a column of the feature's name
\* is reported and deleted, then both tables are sorted on the time key and
\* merged
AsofMergeFeature ==
    /\ apc = "ready"
    /\ LET checked == WarnIfOverwritingAndDelete(asof_columns, asof_existing,
                                                 asof_warnings, "value")
       IN  /\ asof_existing' = checked.existing
           /\ asof_warnings' = checked.warnings
           /\ asof_columns' = MergedColumns(checked.columns, FeatureColumns)
    /\ \E left \in SortValues(asof_obj) : \E right \in SortValues(feature) :
          asof_obj' = MergeAsof(left, right, exact_match_allowed)
    /\ apc' = "merged"
    /\ UNCHANGED <<feature, exact_match_allowed>>
    /\ AsofFrame

AsofNext == AsofMergeFeature

SpecAsof == AsofInit /\ [][AsofNext]_vars

(***************************************************************************)
(* Claims about the temporal join.                                         *)
(***************************************************************************)
\* the feature rows that equal the row on every `by` key
SameKey(row) ==
    {r \in DOMAIN feature :
        /\ feature[r].security_key = row.security_key
        /\ feature[r].security_key_name = row.security_key_name}

\* the row got the value of the feature row r
Attached(row, r) ==
    /\ row.value = Some(feature[r].value)
    /\ row.shifted_date = Some(feature[r].date)

\* C7: with exact matches allowed, every panel row gets the value of the
\* feature row that equals it on every `by` key and has the greatest date <=
\* the panel row's date, and null when there is no such feature row; a feature
\* row of a later date or of another key is never attached.
C7_AttachesLatestNotLater ==
    (apc = "merged" /\ exact_match_allowed) =>
        \A x \in DOMAIN asof_obj :
            LET row == asof_obj[x]
                eligible == {r \in SameKey(row) : feature[r].date <= row.date}
            IN  /\ eligible = {} => row.value = Null /\ row.shifted_date = Null
                /\ eligible # {} =>
                      \E r \in eligible :
                          /\ \A q \in eligible : feature[q].date <= feature[r].date
                          /\ Attached(row, r)
                /\ \A r \in DOMAIN feature :
                      (r \notin SameKey(row) \/ feature[r].date > row.date)
                          => row.value # Some(feature[r].value)

C7_Witness ==
    /\ apc = "merged"
    /\ exact_match_allowed
    /\ \E x \in DOMAIN asof_obj : \E y \in DOMAIN asof_obj :
          /\ asof_obj[x].value # Null
          /\ asof_obj[x].shifted_date = Some(asof_obj[x].date)
          /\ asof_obj[y].value = Null
          /\ \E r \in DOMAIN feature :
                /\ feature[r].security_key = asof_obj[y].security_key
                /\ feature[r].security_key_name # asof_obj[y].security_key_name
                /\ feature[r].date <= asof_obj[y].date

\* C8: with exact matches not allowed, the feature row attached to a panel row
\* is dated strictly before the panel row (the latest such row of the same
\* key), and a panel row whose same-key feature rows are all dated on or after
\* its own date gets null.
C8_StrictlyEarlier ==
    (apc = "merged" /\ ~exact_match_allowed) =>
        \A x \in DOMAIN asof_obj :
            LET row == asof_obj[x]
                earlier == {r \in SameKey(row) : feature[r].date < row.date}
            IN  /\ row.shifted_date # Null => row.shifted_date[1] < row.date
                /\ earlier = {} => row.value = Null /\ row.shifted_date = Null
                /\ earlier # {} =>
                      \E r \in earlier :
                          /\ \A q \in earlier : feature[q].date <= feature[r].date
                          /\ Attached(row, r)

C8_Witness ==
    /\ apc = "merged"
    /\ ~exact_match_allowed
    /\ \E x \in DOMAIN asof_obj : \E y \in DOMAIN asof_obj :
          /\ asof_obj[x].value = Null
          /\ \E r \in SameKey(asof_obj[x]) : feature[r].date = asof_obj[x].date
          /\ asof_obj[y].value # Null
          /\ asof_obj[y].shifted_date[1] < asof_obj[y].date
          /\ \E r \in SameKey(asof_obj[y]) : feature[r].date = asof_obj[y].date


(***************************************************************************)
(* The index membership reconstruction (panel_constructors.py,             *)
(* get_index_from_datastream).                                             *)
(*                                                                         *)
(* A table is the set of its rows.  The evaluation dates are               *)
(* pd.date_range(since, until), here 1..IndexMaxDate; the constituents     *)
(* query replaces a null end date by `until`, so no interval is open.      *)
(***************************************************************************)
IndexDates == 1..IndexMaxDate

Infocodes == 1..NumInfocodes

RECURSIVE SubsetsUpTo(_, _)
\* the subsets of S of at most n elements
SubsetsUpTo(S, n) ==
    IF n = 0 THEN {{}}
    ELSE LET smaller == SubsetsUpTo(S, n - 1)
         IN  smaller \cup {T \cup {x} : T \in smaller, x \in S}

\* rows datastream_index_constituents can return
MembershipRows ==
    {r \in [infocode : Infocodes, in_index_since : IndexDates,
            in_index_until : IndexDates] : r.in_index_since <= r.in_index_until}

\* the identifiers of the security master: abbreviated key and its kind
Identifiers == {[security_key_abbrev |-> Some("C1"), security_key_name |-> Some("cusip")],
                [security_key_abbrev |-> Some("S1"), security_key_name |-> Some("sedol")]}

\* the validity periods of a mapping row: a start date and an end date that is
\* null or not before the start
Validities ==
    {<<Some(a), b>> : <<a, b>> \in
        {v \in IndexDates \X ({Null} \cup {Some(e) : e \in IndexDates}) :
            v[2] = Null \/ v[2][1] >= v[1]}}

\* rows get_security_keys_from_infocodes can return for the infocodes asked for
TimedRows(codes) ==
    {[infocode |-> c, security_key_abbrev |-> k.security_key_abbrev,
      security_key_name |-> k.security_key_name,
      startdate |-> v[1], enddate |-> v[2]] :
        c \in codes, k \in Identifiers, v \in Validities}

\* rows get_security_keys_from_infocodes_now can return for the infocodes asked for
NowRows(codes) ==
    {[infocode |-> c, security_key_abbrev |-> k.security_key_abbrev,
      security_key_name |-> k.security_key_name] : c \in codes, k \in Identifiers}

\* (panel['in_index_since'] <= panel['date']) & (panel['date'] <= panel['in_index_until'])
InIndexCondition(row) ==
    row.in_index_since <= row.date /\ row.date <= row.in_index_until

\* the cross join of the dates with the membership rows, and np.where(..., 1, 0)
Grid(ds, mem) ==
    {[infocode |-> m.infocode, date |-> d,
      in_index_since |-> m.in_index_since, in_index_until |-> m.in_index_until,
      in_index |-> IF InIndexCondition([date |-> d,
                                        in_index_since |-> m.in_index_since,
                                        in_index_until |-> m.in_index_until])
                   THEN 1 ELSE 0] : d \in ds, m \in mem}

\* a group's in_index were the sort ascending
FirstInIndexAscending(rows) == SetMin({r.in_index : r \in rows})

\* sort_values([..., 'in_index'], ascending=False).groupby(...).first(): the
\* in_index of the group's first row, the greatest of the group
FirstInIndex(rows) == SetMax({r.in_index : r \in rows})

\* lines 225-226: one row per (infocode, date); the interval columns stay on
\* the row but are not read again and are left out here
ResolveDuplicates(grid) ==
    {[infocode |-> k[1], date |-> k[2],
      in_index |-> FirstInIndex({r \in grid : r.infocode = k[1] /\ r.date = k[2]})] :
        k \in {<<r.infocode, r.date>> : r \in grid}}

\* timed_match[(startdate <= d) & ((enddate >= d) | enddate.isna())]
ValidOn(t, d) ==
    /\ t.startdate[1] <= d
    /\ (t.enddate = Null \/ t.enddate[1] >= d)

\* __match_security_keys_for_missing_rows: for every date of the panel, the
\* panel rows of the date merged on infocode with the mapping rows valid on
\* it (how='right'; every mapping row is of an infocode of the panel)
MatchSecurityKeys(pnl, timed) ==
    {[infocode |-> r.infocode, date |-> r.date, in_index |-> r.in_index,
      security_key_abbrev |-> t.security_key_abbrev,
      security_key_name |-> t.security_key_name,
      startdate |-> t.startdate, enddate |-> t.enddate] :
        <<r, t>> \in {q \in pnl \X timed :
                        q[1].infocode = q[2].infocode /\ ValidOn(q[2], q[1].date)}}

\* panel[~panel.index.isin(fill_values.index)], the index being (infocode, date)
MissingPanel(pnl, fill) ==
    {r \in pnl : ~\E f \in fill : f.infocode = r.infocode /\ f.date = r.date}

\* simple_query[~simple_query.infocode.duplicated(keep=False)]
Unambiguous(simple) ==
    {q \in simple : ~\E o \in simple : o # q /\ o.infocode = q.infocode}

\* missing_panel.merge(simple_query_unambigious, on='infocode', how='left');
\* after the concat its rows have no startdate and no enddate
FillNotPit(missing, simple) ==
    {[infocode |-> r.infocode, date |-> r.date, in_index |-> r.in_index,
      security_key_abbrev |-> k.security_key_abbrev,
      security_key_name |-> k.security_key_name,
      startdate |-> Null, enddate |-> Null] :
        <<r, k>> \in {q \in missing \X
                        ({[security_key_abbrev |-> u.security_key_abbrev,
                           security_key_name |-> u.security_key_name,
                           infocode |-> u.infocode] : u \in Unambiguous(simple)}
                         \cup {[security_key_abbrev |-> Null,
                                security_key_name |-> Null, infocode |-> 0]}) :
                        IF \E u \in Unambiguous(simple) : u.infocode = q[1].infocode
                        THEN q[2].infocode = q[1].infocode
                        ELSE q[2].infocode = 0}}

\* a sense check that keeps every row with a security key
SenseCheckNoGrouping(pnl, keep) ==
    {[security_key_abbrev |-> r.security_key_abbrev,
      security_key_name |-> r.security_key_name, date |-> r.date,
      in_index |-> r.in_index] :
        r \in {q \in pnl : q.security_key_abbrev # Null /\ (keep => q.in_index = 1)}}

\* __sense_check_panel_and_sort: sort descending, group by (security_key_abbrev,
\* security_key_name, date), which drops the rows with a null key, take each
\* group's first row, and keep the in_index = 1 rows alone when asked to
SenseCheckPanelAndSort(pnl, keep) ==
    LET keyed == {r \in pnl : r.security_key_abbrev # Null /\ r.security_key_name # Null}
        firsts == {[security_key_abbrev |-> k[1], security_key_name |-> k[2],
                    date |-> k[3],
                    in_index |-> FirstInIndex(
                        {r \in keyed : /\ r.security_key_abbrev = k[1]
                                       /\ r.security_key_name = k[2]
                                       /\ r.date = k[3]})] :
                      k \in {<<r.security_key_abbrev, r.security_key_name, r.date>> :
                                r \in keyed}}
    IN  IF keep THEN {r \in firsts : r.in_index = 1} ELSE firsts

\* cusip_abbrev_to_full / sedol_abbrev_to_full: the abbreviated key followed
\* by the check digit computed from it
AbbrevToFull(row) ==
    IF row.security_key_name = Some("sedol")
    THEN Some(<<row.security_key_abbrev[1], "sedol check digit">>)
    ELSE IF row.security_key_name = Some("cusip")
    THEN Some(<<row.security_key_abbrev[1], "cusip check digit">>)
    ELSE Null

\* lines 246-252: the full keys are added and the rows without one left out
WithFullKeys(pnl) ==
    {r \in {[security_key_abbrev |-> q.security_key_abbrev,
             security_key_name |-> q.security_key_name, date |-> q.date,
             in_index |-> q.in_index, security_key |-> AbbrevToFull(q)] : q \in pnl} :
        r.security_key # Null}

\* what the reconstruction leaves alone
IndexFrame == UNCHANGED <<walkVars, asofVars, lagVars, crossVars, scaleVars, securityVars, gicVars, validateVars, resourceVars, pathVars>>

\* Python's truth value of a string argument: None and '' are false
TruthyStr(x) == x # Null /\ x[1] # ""

\* the index codes of the database: the FTSE 100 and the FTSE 250
IndexCodes == {DefaultIndexCode, DefaultIndexCode + 1}

\* the index names a call is made with
IndexNames == {"FTSE"}

\* Python's truth value of an argument: None, False and 0 are false
Truthy(x) == x # Null /\ x[1] # 0

\* what datastream_index_code_from_name can return: False (which is 0) when
\* no index has the name, the code of the first row otherwise
CodeFromNameResults == {Some(0)} \cup {Some(c) : c \in IndexCodes}

\* the calls: index_code is passed (None, 0 or the code of an index) or left
\* out, index_name is None or a name
Calls ==
    {c \in [passes_index_code : BOOLEAN,
            index_code : {Null, Some(0), Some(DefaultIndexCode)},
            index_name : {Null} \cup {Some(n) : n \in IndexNames}] :
        ~c.passes_index_code => c.index_code = Null}

\* line 183, index_code=3670: the parameter is the value passed, or the
\* default when the call passes none
BoundIndexCode(c) ==
    IF c.passes_index_code THEN c.index_code ELSE Some(DefaultIndexCode)

IndexInit ==
    /\ call \in Calls
    /\ index_code = BoundIndexCode(call)
    /\ queries = <<>>
    /\ keep_in_index_only \in BOOLEAN
    /\ membership = {}
    /\ panel = {}
    /\ timed_match = {}
    /\ fill_values = {}
    /\ simple_query = {}
    /\ new_panel = {}
    /\ index_panel = {}
    /\ ipc = "start"
    /\ raised = ""
    /\ WalkIdle
    /\ AsofIdle
    /\ LagIdle
    /\ CrossIdle
    /\ ScaleIdle
    /\ SecurityIdle
    /\ GicIdle
    /\ ValidateIdle
    /\ ResourceIdle
    /\ PathIdle

\* lines 202-204: neither an index_code nor an index_name
NoSelector ==
    /\ ipc = "start"
    /\ ~Truthy(index_code)
    /\ ~TruthyStr(call.index_name)
    /\ ipc' = "raised"
    /\ raised' = "ValueError"
    /\ UNCHANGED <<indexArgVars, keep_in_index_only, membership, panel,
                   timed_match, fill_values, simple_query, new_panel,
                   index_panel>>
    /\ IndexFrame

\* line 202: an index_code is given and no name is looked up
CodeGiven ==
    /\ ipc = "start"
    /\ Truthy(index_code)
    /\ ipc' = "constituents"
    /\ UNCHANGED <<indexArgVars, keep_in_index_only, membership, panel,
                   timed_match, fill_values, simple_query, new_panel,
                   index_panel, raised>>
    /\ IndexFrame

\* lines 205-206: the index_name is looked up and an index has it
NameResolves ==
    /\ ipc = "start"
    /\ ~Truthy(index_code)
    /\ TruthyStr(call.index_name)
    /\ queries' = Append(queries, "datastream_index_code_from_name")
    /\ \E code \in CodeFromNameResults :
          /\ Truthy(code)
          /\ index_code' = code
    /\ ipc' = "constituents"
    /\ UNCHANGED <<call, keep_in_index_only, membership, panel, timed_match,
                   fill_values, simple_query, new_panel, index_panel, raised>>
    /\ IndexFrame

\* lines 205-208: the index_name is looked up and no index has it
NameUnknown ==
    /\ ipc = "start"
    /\ ~Truthy(index_code)
    /\ TruthyStr(call.index_name)
    /\ queries' = Append(queries, "datastream_index_code_from_name")
    /\ \E code \in CodeFromNameResults :
          /\ ~Truthy(code)
          /\ index_code' = code
    /\ ipc' = "raised"
    /\ raised' = "KeyError"
    /\ UNCHANGED <<call, keep_in_index_only, membership, panel, timed_match,
                   fill_values, simple_query, new_panel, index_panel>>
    /\ IndexFrame

\* line 211: the constituents query returns rows
QueryConstituents ==
    /\ ipc = "constituents"
    /\ queries' = Append(queries, "datastream_index_constituents")
    /\ \E rows \in SubsetsUpTo(MembershipRows, MaxMembership) :
          /\ rows # {}
          /\ membership' = rows
    /\ ipc' = "grid"
    /\ UNCHANGED <<call, index_code, keep_in_index_only, panel, timed_match, fill_values,
                   simple_query, new_panel, index_panel, raised>>
    /\ IndexFrame

\* lines 211-214: the constituents query returns no row
NoConstituents ==
    /\ ipc = "constituents"
    /\ queries' = Append(queries, "datastream_index_constituents")
    /\ membership' = {}
    /\ ipc' = "raised"
    /\ raised' = "KeyError"
    /\ UNCHANGED <<call, index_code, keep_in_index_only, panel, timed_match, fill_values,
                   simple_query, new_panel, index_panel>>
    /\ IndexFrame

\* lines 216-221: the date x membership grid with its in_index flag
BuildGrid ==
    /\ ipc = "grid"
    /\ panel' = Grid(IndexDates, membership)
    /\ ipc' = "resolve"
    /\ UNCHANGED <<indexArgVars, keep_in_index_only, membership, timed_match, fill_values,
                   simple_query, new_panel, index_panel, raised>>
    /\ IndexFrame

\* lines 225-226: duplicate resolution
Resolve ==
    /\ ipc = "resolve"
    /\ panel' = ResolveDuplicates(panel)
    /\ ipc' = "match"
    /\ UNCHANGED <<indexArgVars, keep_in_index_only, membership, timed_match, fill_values,
                   simple_query, new_panel, index_panel, raised>>
    /\ IndexFrame

\* lines 229-232: the point-in-time mapping is queried and matched by date
Match ==
    /\ ipc = "match"
    /\ \E rows \in SubsetsUpTo(TimedRows({m.infocode : m \in membership}), MaxTimed) :
          /\ timed_match' = rows
          /\ fill_values' = MatchSecurityKeys(panel, rows)
    /\ queries' = Append(queries, "get_security_keys_from_infocodes")
    /\ ipc' = "fill"
    /\ UNCHANGED <<call, index_code, keep_in_index_only, membership, panel, simple_query,
                   new_panel, index_panel, raised>>
    /\ IndexFrame

\* __fill_missing_values when every row of the grid has a point-in-time mapping
FillNothingMissing ==
    /\ ipc = "fill"
    /\ MissingPanel(panel, fill_values) = {}
    /\ new_panel' = fill_values
    /\ ipc' = "sense"
    /\ UNCHANGED <<indexArgVars, keep_in_index_only, membership, panel, timed_match,
                   fill_values, simple_query, index_panel, raised>>
    /\ IndexFrame

\* __fill_missing_values when rows are missing: they take the current mapping,
\* and the assertion on the number of rows holds
FillMissing ==
    /\ ipc = "fill"
    /\ MissingPanel(panel, fill_values) # {}
    /\ \E rows \in SubsetsUpTo(
                     NowRows({r.infocode : r \in MissingPanel(panel, fill_values)}),
                     MaxNow) :
          /\ simple_query' = rows
          /\ new_panel' = FillNotPit(MissingPanel(panel, fill_values), rows)
                             \cup fill_values
    /\ Cardinality(MissingPanel(panel, fill_values)) + Cardinality(fill_values)
          = Cardinality(panel)
    /\ queries' = Append(queries, "get_security_keys_from_infocodes_now")
    /\ ipc' = "sense"
    /\ UNCHANGED <<call, index_code, keep_in_index_only, membership, panel, timed_match,
                   fill_values, index_panel, raised>>
    /\ IndexFrame

\* __fill_missing_values when rows are missing and the assertion fails
FillAssertionFails ==
    /\ ipc = "fill"
    /\ MissingPanel(panel, fill_values) # {}
    /\ \E rows \in SubsetsUpTo(
                     NowRows({r.infocode : r \in MissingPanel(panel, fill_values)}),
                     MaxNow) :
          /\ simple_query' = rows
          /\ new_panel' = FillNotPit(MissingPanel(panel, fill_values), rows)
                             \cup fill_values
    /\ Cardinality(MissingPanel(panel, fill_values)) + Cardinality(fill_values)
          # Cardinality(panel)
    /\ queries' = Append(queries, "get_security_keys_from_infocodes_now")
    /\ ipc' = "raised"
    /\ raised' = "AssertionError"
    /\ UNCHANGED <<call, index_code, keep_in_index_only, membership, panel, timed_match,
                   fill_values, index_panel>>
    /\ IndexFrame

\* lines 244-252: sense check, full keys, return
SenseCheckAndReturn ==
    /\ ipc = "sense"
    /\ index_panel' = WithFullKeys(
                          SenseCheckPanelAndSort(new_panel, keep_in_index_only))
    /\ ipc' = "returned"
    /\ UNCHANGED <<indexArgVars, keep_in_index_only, membership, panel, timed_match,
                   fill_values, simple_query, new_panel, raised>>
    /\ IndexFrame

IndexNext ==
    \/ NoSelector
    \/ CodeGiven
    \/ NameResolves
    \/ NameUnknown
    \/ QueryConstituents
    \/ NoConstituents
    \/ BuildGrid
    \/ Resolve
    \/ Match
    \/ FillNothingMissing
    \/ FillMissing
    \/ FillAssertionFails
    \/ SenseCheckAndReturn

SpecIndex == IndexInit /\ [][IndexNext]_vars


(***************************************************************************)
(* Claims about the index membership reconstruction.                       *)
(***************************************************************************)
\* a raw membership interval of the infocode contains the date, bounds included
Covered(c, d) ==
    \E m \in membership :
        m.infocode = c /\ m.in_index_since <= d /\ d <= m.in_index_until

\* C9: after duplicate resolution every (infocode, evaluation date) cell
\* appears exactly once, with in_index = 1 if and only if at least one raw
\* membership interval of the infocode contains the date (both bounds
\* inclusive) and in_index = 0 otherwise.
C9_CellOnceAndCovered ==
    ipc = "match" =>
        /\ \A r \in panel : r.infocode \in {m.infocode : m \in membership}
        /\ \A c \in {m.infocode : m \in membership} : \A d \in IndexDates :
              /\ Cardinality({r \in panel : r.infocode = c /\ r.date = d}) = 1
              /\ \A r \in panel :
                    (r.infocode = c /\ r.date = d) =>
                        r.in_index = IF Covered(c, d) THEN 1 ELSE 0

C9_Witness ==
    /\ ipc = "match"
    /\ \E m \in membership : \E o \in membership : \E r \in panel :
          /\ m.infocode = o.infocode
          /\ r.infocode = m.infocode
          /\ m.in_index_since <= r.date
          /\ r.date <= m.in_index_until
          /\ r.date = m.in_index_until
          /\ o.in_index_until < r.date
          /\ r.in_index = 1

\* the rows share security_key_name, security_key_abbrev and date
SameKeyAndDate(r, q) ==
    /\ r.security_key_name = q.security_key_name
    /\ r.security_key_abbrev = q.security_key_abbrev
    /\ r.date = q.date

\* C10: no two rows of the returned panel share (security_key_name,
\* security_key_abbrev, date), whatever the membership and the mappings; when
\* candidate rows of one key and date differ in in_index, the row retained
\* for them has in_index = 1.
C10_KeyUniqueAndPrefersInIndex ==
    ipc = "returned" =>
        /\ \A r \in index_panel : \A q \in index_panel :
              SameKeyAndDate(r, q) => r = q
        /\ \A a \in new_panel : \A b \in new_panel :
              (/\ a.security_key_abbrev # Null
               /\ SameKeyAndDate(a, b)
               /\ a.in_index # b.in_index) =>
                  /\ \E r \in index_panel : SameKeyAndDate(r, a)
                  /\ \A r \in index_panel : SameKeyAndDate(r, a) => r.in_index = 1

C10_Witness ==
    /\ ipc = "returned"
    /\ \E a \in new_panel : \E b \in new_panel : \E r \in index_panel :
          /\ a.infocode # b.infocode
          /\ a.security_key_abbrev # Null
          /\ SameKeyAndDate(a, b)
          /\ a.in_index = 1
          /\ b.in_index = 0
          /\ SameKeyAndDate(r, a)
          /\ r.in_index = 1
          /\ Cardinality(index_panel) >= 2

\* C11: in the identifier backfill, a row of the (infocode, date) grid that has
\* a point-in-time mapping valid on its date never takes its identifier from
\* the current mapping, the combined panel has exactly as many rows as the
\* grid, and the assertion on the number of rows never fails, whatever the
\* point-in-time mapping table (two of its rows of one infocode may be valid
\* on the same date).
C11_PitWinsAndRowCount ==
    /\ raised # "AssertionError"
    /\ ipc = "sense" =>
          /\ \A r \in new_panel :
                r.startdate = Null =>
                    ~\E t \in timed_match :
                        t.infocode = r.infocode /\ ValidOn(t, r.date)
          /\ Cardinality(new_panel) = Cardinality(panel)

\* the call gives an index_code: it passes one that is not None (nor 0)
GivesIndexCode == call.passes_index_code /\ Truthy(call.index_code)

\* the call gives an index_name
GivesIndexName == TruthyStr(call.index_name)

\* C12: a call with neither an index_code nor an index_name raises ValueError,
\* and no query has been issued when it does.
C12_NoSelectorRaisesFirst ==
    (ipc # "start" /\ ~GivesIndexCode /\ ~GivesIndexName) =>
        /\ ipc = "raised"
        /\ raised = "ValueError"
        /\ queries = <<>>
        /\ index_panel = {}

\* C13: when an index_name given without an index_code resolves to no index
\* code the call raises KeyError, when the constituents query returns no row
\* the call raises KeyError, and in both cases no panel is returned; when an
\* index_code is given the index_name is never looked up and the constituents
\* are those of the index_code given, as in the call with the index_code alone.
C13_KeyErrorsAndCodeWins ==
    /\ (ipc # "start" /\ ~GivesIndexCode /\ GivesIndexName) =>
            /\ "datastream_index_code_from_name" \in Range(queries)
            /\ ~Truthy(index_code) =>
                  /\ ipc = "raised"
                  /\ raised = "KeyError"
                  /\ index_panel = {}
    /\ (/\ "datastream_index_constituents" \in Range(queries)
        /\ membership = {}) =>
            /\ ipc = "raised"
            /\ raised = "KeyError"
            /\ index_panel = {}
    /\ GivesIndexCode =>
            /\ index_code = call.index_code
            /\ "datastream_index_code_from_name" \notin Range(queries)
            /\ raised # "ValueError"


(***************************************************************************)
(* The lag methods of the analysis accessor (analysis.py,                  *)
(* add_lagged_feature_on_date_by_key and                                   *)
(* add_offset_lagged_feature_on_date_by_key), with the default key         *)
(* ['security_key', 'security_key_name'] and freq=None.                    *)
(*                                                                         *)
(* The panel has at most one row per security and date, in any row order,  *)
(* no null key and no null in test_feature; its dates are PanelStep days   *)
(* apart.  The two securities share their security_key and differ in       *)
(* security_key_name.                                                      *)
(***************************************************************************)
LagKeyOrder == <<ByKeys[1], ByKeys[3]>>

LagDates == {PanelStep * t : t \in 1..MaxLagDates}

\* the value of test_feature in the row of a security and a date: no two rows
\* of a panel hold the same value
TestFeature(k, d) == 10 * d + (IF k.security_key_name = "cusip" THEN 1 ELSE 2)

LagPanels ==
    {[x \in DOMAIN cs |->
        [security_key      |-> cs[x][1].security_key,
         security_key_name |-> cs[x][1].security_key_name,
         date              |-> cs[x][2],
         test_feature      |-> TestFeature(cs[x][1], cs[x][2])]] :
     cs \in {c \in SeqsUpTo(Range(LagKeyOrder) \X LagDates, MaxLagRows) :
                /\ c # <<>>
                /\ \A x \in DOMAIN c : \A y \in DOMAIN c : c[x] = c[y] => x = y}}

\* groups that the security_key alone defines
SameGroupKeyOnly(r, q) == r.security_key = q.security_key

\* groupby(key): the rows are of one group when they agree on every key column
SameGroup(r, q) ==
    /\ r.security_key = q.security_key
    /\ r.security_key_name = q.security_key_name

\* the rows of the row's group, in the frame's order
GroupOf(frame, row) ==
    LET InGroup(q) == SameGroup(q, row)
    IN  SelectSeq(frame, InGroup)

\* the 1-based position of the frame's x-th row within its group
PositionInGroup(frame, x) ==
    Cardinality({y \in 1..x : SameGroup(frame[y], frame[x])})

\* a shift that moves the values the other way
ShiftReversed(col, n) ==
    [j \in DOMAIN col |-> IF (j + n) \in DOMAIN col THEN col[j + n] ELSE Null]

\* Series.shift(n): position j takes the value of position j - n, null when
\* there is no such position
Shift(col, n) ==
    [j \in DOMAIN col |-> IF (j - n) \in DOMAIN col THEN col[j - n] ELSE Null]

\* the row with the new column
WithLag(row, v) ==
    [security_key |-> row.security_key,
     security_key_name |-> row.security_key_name,
     date |-> row.date, test_feature |-> row.test_feature, lagged |-> v]

\* lines 54-58: the new column is a copy of the feature, shifted within each
\* group of the frame
ShiftColumn(frame, n) ==
    [x \in DOMAIN frame |->
        LET group == GroupOf(frame, frame[x])
            column == [j \in DOMAIN group |-> Some(group[j].test_feature)]
        IN  WithLag(frame[x], Shift(column, n)[PositionInGroup(frame, x)])]

\* the groups one after the other, in the order of their keys
GroupedOrder(frame) ==
    GroupOf(frame, LagKeyOrder[1]) \o GroupOf(frame, LagKeyOrder[2])

\* groupby(key).apply(shift_column).reset_index(drop=True): the rows come in
\* the frame's order or group after group, as the pandas version has it
ApplyOrders(frame) == {frame, GroupedOrder(frame)}

\* what the lag methods leave alone
LagFrame == UNCHANGED <<walkVars, asofVars, indexVars, crossVars, scaleVars, securityVars, gicVars, validateVars, resourceVars, pathVars>>

LagInit ==
    /\ lag_obj0 \in LagPanels
    /\ lag_obj = <<>>
    /\ lag_arg = 0
    /\ lpc = "ready"
    /\ WalkIdle
    /\ AsofIdle
    /\ IndexIdle
    /\ CrossIdle
    /\ ScaleIdle
    /\ SecurityIdle
    /\ GicIdle
    /\ ValidateIdle
    /\ ResourceIdle
    /\ PathIdle

\* add_lagged_feature_on_date_by_key('test_feature', lag=n)
AddLaggedFeature ==
    /\ lpc = "ready"
    /\ \E n \in (0 - MaxLag)..MaxLag : \E sorted \in SortValues(lag_obj0) :
          /\ lag_arg' = n
          /\ lag_obj' \in ApplyOrders(ShiftColumn(sorted, n))
    /\ lpc' = "add_lagged_feature_on_date_by_key"
    /\ UNCHANGED lag_obj0
    /\ LagFrame

\* the offsets of the calls, in days: negative, zero, shorter than the panel
\* step, the step itself and longer
Offsets == (0 - PanelStep - 1)..(PanelStep + 1)

\* lines 80-82: the key, date and feature columns, the feature renamed to the
\* new column (MergeAsof's `value`) and every date moved by the offset;
\* MergeAsof's other column holds the moved date again
Shifted(frame, offset) ==
    [x \in DOMAIN frame |->
        [security_key      |-> frame[x].security_key,
         security_key_name |-> frame[x].security_key_name,
         date              |-> frame[x].date + offset,
         value             |-> frame[x].test_feature,
         shifted_date      |-> frame[x].date + offset]]

\* a merge back that does not allow exact matches
AsofMergeShiftedStrict(left, right) ==
    LET merged == MergeAsof(left, right, FALSE)
    IN  [x \in DOMAIN left |-> WithLag(left[x], merged[x].value)]

\* line 83 and api.py 162-166: the moved table is merged back on the panel,
\* exact matches allowed; the panel's rows keep their other columns
AsofMergeShifted(left, right) ==
    LET merged == MergeAsof(left, right, TRUE)
    IN  [x \in DOMAIN left |-> WithLag(left[x], merged[x].value)]

\* add_offset_lagged_feature_on_date_by_key('test_feature', offset=offset)
AddOffsetLaggedFeature ==
    /\ lpc = "ready"
    /\ \E offset \in Offsets :
       \E left \in SortValues(lag_obj0) :
       \E right \in SortValues(Shifted(lag_obj0, offset)) :
          /\ lag_arg' = offset
          /\ lag_obj' = AsofMergeShifted(left, right)
    /\ lpc' = "add_offset_lagged_feature_on_date_by_key"
    /\ UNCHANGED lag_obj0
    /\ LagFrame

LagNext ==
    \/ AddLaggedFeature
    \/ AddOffsetLaggedFeature

SpecLag == LagInit /\ [][LagNext]_vars


(***************************************************************************)
(* Claims about the lag methods.                                           *)
(***************************************************************************)
\* the rows are of one security: same security_key, same security_key_name
SameSecurity(r, q) ==
    r.security_key = q.security_key /\ r.security_key_name = q.security_key_name

\* the rows of the returned panel that are of the key k
LagGroup(k) == {x \in DOMAIN lag_obj : SameSecurity(lag_obj[x], k)}

\* the rows of the group that have fewer than c rows of the group dated
\* before them (after them)
Earliest(G, c) ==
    {x \in G : Cardinality({y \in G : lag_obj[y].date < lag_obj[x].date}) < c}

Latest(G, c) ==
    {x \in G : Cardinality({y \in G : lag_obj[y].date > lag_obj[x].date}) < c}

NullRows(G) == {x \in G : lag_obj[x].lagged = Null}

Abs(n) == IF n < 0 THEN 0 - n ELSE n

Min2(a, b) == IF a < b THEN a ELSE b

\* the null rows of every group are its |n| earliest rows for n > 0, its |n|
\* latest rows for n < 0, all of its rows when it has fewer than |n|
NullsAtBoundary ==
    \A k \in Range(LagKeyOrder) :
        NullRows(LagGroup(k)) =
            IF lag_arg > 0 THEN Earliest(LagGroup(k), lag_arg)
            ELSE Latest(LagGroup(k), Abs(lag_arg))

\* C14 as stated: for every discrete lag n and every key group, exactly |n|
\* rows of the group are null in the lag column, the |n| earliest-dated rows
\* for n > 0, the |n| latest-dated rows for n < 0, none for n = 0.
C14_ExactlyAbsLagNulls ==
    lpc = "add_lagged_feature_on_date_by_key" =>
        /\ NullsAtBoundary
        /\ \A k \in Range(LagKeyOrder) :
              LagGroup(k) # {} =>
                  Cardinality(NullRows(LagGroup(k))) = Abs(lag_arg)

\* C14 amended: for every discrete lag n and every key group of m rows,
\* exactly min(|n|, m) rows of the group are null in the lag column, the
\* earliest-dated ones for n > 0, the latest-dated ones for n < 0, none for
\* n = 0.
C14_MinAbsLagNulls ==
    lpc = "add_lagged_feature_on_date_by_key" =>
        /\ NullsAtBoundary
        /\ \A k \in Range(LagKeyOrder) :
              Cardinality(NullRows(LagGroup(k))) =
                  Min2(Abs(lag_arg), Cardinality(LagGroup(k)))

C14_Witness ==
    /\ lpc = "add_lagged_feature_on_date_by_key"
    /\ lag_arg = 0 - MaxLag
    /\ Len(lag_obj0) > MaxLag
    /\ lag_obj0[1].date > lag_obj0[2].date
    /\ \E k \in Range(LagKeyOrder) :
          /\ Cardinality(LagGroup(k)) > MaxLag
          /\ Cardinality(NullRows(LagGroup(k))) = MaxLag
          /\ NullRows(LagGroup(k)) # LagGroup(k)

\* the row of the panel as it was passed that is of the key k and has pos rows
\* of k dated before it (its 0-based position by ascending date)
InputAt(k, pos) ==
    {x \in DOMAIN lag_obj0 :
        /\ SameSecurity(lag_obj0[x], k)
        /\ Cardinality({y \in DOMAIN lag_obj0 :
                            /\ SameSecurity(lag_obj0[y], k)
                            /\ lag_obj0[y].date < lag_obj0[x].date}) = pos}

\* the 0-based position of a returned row in its key group, by ascending date
DatePosition(row) ==
    Cardinality({y \in DOMAIN lag_obj0 :
                    /\ SameSecurity(lag_obj0[y], row)
                    /\ lag_obj0[y].date < row.date})

\* C15: the row at position j (0-based, by ascending date) of its key group
\* holds in the lag column the feature value of the row at position j - n of
\* the same key group whenever there is one, whatever the row order of the
\* panel passed and never a value of another key; the feature column is
\* unchanged (every row of the panel passed is returned once, with its
\* feature value), and lag 0 reproduces it in the lag column.
C15_ValueOfPositionMinusLag ==
    lpc = "add_lagged_feature_on_date_by_key" =>
        /\ Len(lag_obj) = Len(lag_obj0)
        /\ \A x \in DOMAIN lag_obj0 :
              \E y \in DOMAIN lag_obj :
                  /\ SameSecurity(lag_obj[y], lag_obj0[x])
                  /\ lag_obj[y].date = lag_obj0[x].date
                  /\ lag_obj[y].test_feature = lag_obj0[x].test_feature
        /\ \A y \in DOMAIN lag_obj :
              LET row == lag_obj[y]
                  source == InputAt(row, DatePosition(row) - lag_arg)
              IN  /\ \A x \in source :
                         row.lagged = Some(lag_obj0[x].test_feature)
                  /\ row.lagged # Null =>
                         \E x \in DOMAIN lag_obj0 :
                             /\ SameSecurity(lag_obj0[x], row)
                             /\ row.lagged = Some(lag_obj0[x].test_feature)
                  /\ lag_arg = 0 => row.lagged = Some(row.test_feature)

C15_Witness ==
    /\ lpc = "add_lagged_feature_on_date_by_key"
    /\ lag_arg = 1
    /\ Len(lag_obj0) = MaxLagRows
    /\ lag_obj0[1].date > lag_obj0[2].date
    /\ SameSecurity(lag_obj0[1], lag_obj0[2])
    /\ ~SameSecurity(lag_obj0[1], lag_obj0[3])
    /\ \E y \in DOMAIN lag_obj :
          /\ SameSecurity(lag_obj[y], lag_obj0[1])
          /\ lag_obj[y].date = lag_obj0[1].date
          /\ lag_obj[y].lagged = Some(lag_obj0[2].test_feature)

\* the rows of the panel as it was passed that are of the row's security and
\* whose date moved by the offset is not after the row's date
Eligible(row) ==
    {x \in DOMAIN lag_obj0 :
        /\ SameSecurity(lag_obj0[x], row)
        /\ lag_obj0[x].date + lag_arg <= row.date}

\* every returned row holds the feature value of the eligible row of the
\* greatest date, null when no row is eligible; the panel's rows are returned
\* once each, with their feature value
AttachesLatestEligible ==
    /\ Len(lag_obj) = Len(lag_obj0)
    /\ \A x \in DOMAIN lag_obj0 :
          \E y \in DOMAIN lag_obj :
              /\ SameSecurity(lag_obj[y], lag_obj0[x])
              /\ lag_obj[y].date = lag_obj0[x].date
              /\ lag_obj[y].test_feature = lag_obj0[x].test_feature
    /\ \A y \in DOMAIN lag_obj :
          LET row == lag_obj[y]
          IN  /\ Eligible(row) = {} => row.lagged = Null
              /\ Eligible(row) # {} =>
                    \E x \in Eligible(row) :
                        /\ \A q \in Eligible(row) :
                               lag_obj0[q].date <= lag_obj0[x].date
                        /\ row.lagged = Some(lag_obj0[x].test_feature)

\* the first date of the panel
FirstPanelDate == SetMin({lag_obj0[x].date : x \in DOMAIN lag_obj0})

\* the returned rows that are the first-dated row of their security
FirstOfSecurity ==
    {y \in DOMAIN lag_obj :
        \A x \in DOMAIN lag_obj0 :
            SameSecurity(lag_obj0[x], lag_obj[y]) => lag_obj0[x].date >= lag_obj[y].date}

\* a zero offset reproduces the feature column and a negative offset leaves
\* no row null
ZeroAndNegativeOffsets ==
    /\ lag_arg = 0 =>
          \A y \in DOMAIN lag_obj : lag_obj[y].lagged = Some(lag_obj[y].test_feature)
    /\ lag_arg < 0 =>
          \A y \in DOMAIN lag_obj : lag_obj[y].lagged # Null

\* C16 as stated: every row (k, d) holds the feature value of the row of k
\* with the greatest date d' such that d' + offset <= d, null when there is
\* none; a zero offset reproduces the feature column, a positive offset
\* shorter than the panel step leaves null only the rows of the first panel
\* date, and a negative offset leaves no row null.
C16_NullOnlyOnFirstPanelDate ==
    lpc = "add_offset_lagged_feature_on_date_by_key" =>
        /\ AttachesLatestEligible
        /\ ZeroAndNegativeOffsets
        /\ (0 < lag_arg /\ lag_arg < PanelStep) =>
              \A y \in DOMAIN lag_obj :
                  lag_obj[y].lagged = Null => lag_obj[y].date = FirstPanelDate

\* C16 amended: as stated, but a positive offset shorter than the panel step
\* leaves null exactly the first-dated row of every key (the rows of the first
\* panel date only when every key has a row on that date).
C16_NullOnFirstRowOfKey ==
    lpc = "add_offset_lagged_feature_on_date_by_key" =>
        /\ AttachesLatestEligible
        /\ ZeroAndNegativeOffsets
        /\ (0 < lag_arg /\ lag_arg < PanelStep) =>
              \A y \in DOMAIN lag_obj :
                  lag_obj[y].lagged = Null <=> y \in FirstOfSecurity

C16_Witness ==
    /\ lpc = "add_offset_lagged_feature_on_date_by_key"
    /\ 0 < lag_arg
    /\ lag_arg < PanelStep
    /\ \E y \in DOMAIN lag_obj : \E z \in DOMAIN lag_obj :
          /\ lag_obj[y].lagged = Null
          /\ lag_obj[y].date > FirstPanelDate
          /\ lag_obj[z].lagged # Null
          /\ lag_obj[z].lagged # Some(lag_obj[z].test_feature)


(***************************************************************************)
(* The cross-sectional methods of the analysis accessor (analysis.py,      *)
(* apply_f_on_date_by_key, rank_on_date_by_key with its default key [] and *)
(* quantile_on_date_by_key with its default key ['in_index']).             *)
(*                                                                         *)
(* Every row of the panel is of another security (the row's position), so  *)
(* the row labels are the securities; the feature has no null and at least *)
(* one row is in the index.                                                *)
(***************************************************************************)
CrossDates == {1, 2}

CrossPanels ==
    {[x \in DOMAIN rs |->
        [security_key |-> x, date |-> rs[x].date,
         test_feature |-> rs[x].test_feature, in_index |-> rs[x].in_index]] :
     rs \in {r \in SeqsUpTo([date : CrossDates, test_feature : 1..MaxFeatureValue,
                             in_index : {0, 1}], MaxCrossRows) :
                \E x \in DOMAIN r : r[x].in_index = 1}}

\* the numbers of buckets asked for
Quantiles == 2..MaxFeatureValue

\* lines 165-168: the rows the function is computed on and assigned to
Indexer(obj, in_index) ==
    {x \in DOMAIN obj : in_index => obj[x].in_index = 1}

\* line 169, group_key = time_key + key: the rows of the x-th row's group
\* among the rows selected; the key is ['in_index'] or []
GroupAmong(obj, selected, x, by_in_index) ==
    {y \in selected :
        /\ obj[y].date = obj[x].date
        /\ by_in_index => obj[y].in_index = obj[x].in_index}

\* the row with the new column
WithOut(row, v) ==
    [security_key |-> row.security_key, date |-> row.date,
     test_feature |-> row.test_feature, in_index |-> row.in_index, out |-> v]

\* lines 170-172: f is applied to the feature of every group of the selected
\* rows and its values are assigned to the selected rows; f[G, x] is the
\* value f gives the row x of the group G
ApplyFOnDateByKey(obj, f, by_in_index, in_index) ==
    [x \in DOMAIN obj |->
        WithOut(obj[x],
                IF x \in Indexer(obj, in_index)
                THEN Some(f[GroupAmong(obj, Indexer(obj, in_index), x,
                                      by_in_index), x])
                ELSE Null)]

\* column.rank(ascending=ascending).astype(int): the mean of the positions
\* the rows tied with x take in the order of the feature, cut to an integer
RankAsInt(obj, G, x, ascending) ==
    LET before == Cardinality({y \in G :
                      IF ascending
                      THEN obj[y].test_feature < obj[x].test_feature
                      ELSE obj[y].test_feature > obj[x].test_feature})
        tied == Cardinality({y \in G : obj[y].test_feature = obj[x].test_feature})
    IN  (2 * before + tied + 1) \div 2

\* the j-th (0-based) smallest feature value of the group
ValueAt(obj, G, j) ==
    CHOOSE v \in {obj[y].test_feature : y \in G} :
        /\ Cardinality({y \in G : obj[y].test_feature < v}) <= j
        /\ j < Cardinality({y \in G : obj[y].test_feature <= v})

\* k times the e-th bin edge of pd.qcut(column, k): the e/k quantile of the
\* group's values, interpolated linearly between the two nearest values
EdgeTimesK(obj, G, k, e) ==
    LET at == e * (Cardinality(G) - 1)
        low == ValueAt(obj, G, at \div k)
    IN  IF at % k = 0 THEN k * low
        ELSE k * low + (ValueAt(obj, G, (at \div k) + 1) - low) * (at % k)

\* pd.qcut raises ValueError when two bin edges are equal
QcutRaises(obj, G, k) ==
    \E e \in 1..k : EdgeTimesK(obj, G, k, e) = EdgeTimesK(obj, G, k, e - 1)

\* pd.qcut(column, k, labels=range(k)).astype(int): the bin (edge e-1, edge e]
\* the value falls in has the label e - 1, the least value has the label 0
Qcut(obj, G, x, k) ==
    SetMin({e \in 1..k : k * obj[x].test_feature <= EdgeTimesK(obj, G, k, e)}) - 1

\* what the cross-sectional methods leave alone
CrossFrame == UNCHANGED <<walkVars, asofVars, indexVars, lagVars, scaleVars, securityVars, gicVars, validateVars, resourceVars, pathVars>>

CrossInit ==
    /\ cross_obj0 \in CrossPanels
    /\ cross_obj = <<>>
    /\ cross_call = NoCall
    /\ cpc = "ready"
    /\ cross_raised = ""
    /\ WalkIdle
    /\ AsofIdle
    /\ IndexIdle
    /\ LagIdle
    /\ ScaleIdle
    /\ SecurityIdle
    /\ GicIdle
    /\ ValidateIdle
    /\ ResourceIdle
    /\ PathIdle

\* rank_on_date_by_key('test_feature', ascending=..., in_index=...)
RankOnDateByKey ==
    /\ cpc = "ready"
    /\ \E ascending \in BOOLEAN : \E in_index \in BOOLEAN :
          LET f == [G \in SUBSET DOMAIN cross_obj0, x \in DOMAIN cross_obj0 |->
                       RankAsInt(cross_obj0, G, x, ascending)]
          IN  /\ cross_call' = [method |-> "rank_on_date_by_key",
                                ascending |-> ascending, in_index |-> in_index,
                                quantiles |-> 0]
              /\ cross_obj' = ApplyFOnDateByKey(cross_obj0, f, FALSE, in_index)
    /\ cpc' = "returned"
    /\ UNCHANGED <<cross_obj0, cross_raised>>
    /\ CrossFrame

\* the groups of the rows selected on which pd.qcut raises
RaisingGroups(obj, in_index, k) ==
    {x \in Indexer(obj, in_index) :
        QcutRaises(obj, GroupAmong(obj, Indexer(obj, in_index), x, TRUE), k)}

\* quantile_on_date_by_key('test_feature', in_index=..., quantiles=k) when
\* pd.qcut raises on no group
QuantileOnDateByKey ==
    /\ cpc = "ready"
    /\ \E k \in Quantiles : \E in_index \in BOOLEAN :
          LET f == [G \in SUBSET DOMAIN cross_obj0, x \in DOMAIN cross_obj0 |->
                       Qcut(cross_obj0, G, x, k)]
          IN  /\ RaisingGroups(cross_obj0, in_index, k) = {}
              /\ cross_call' = [method |-> "quantile_on_date_by_key",
                                ascending |-> TRUE, in_index |-> in_index,
                                quantiles |-> k]
              /\ cross_obj' = ApplyFOnDateByKey(cross_obj0, f, TRUE, in_index)
    /\ cpc' = "returned"
    /\ UNCHANGED <<cross_obj0, cross_raised>>
    /\ CrossFrame

\* quantile_on_date_by_key when pd.qcut raises on a group
QuantileRaises ==
    /\ cpc = "ready"
    /\ \E k \in Quantiles : \E in_index \in BOOLEAN :
          /\ RaisingGroups(cross_obj0, in_index, k) # {}
          /\ cross_call' = [method |-> "quantile_on_date_by_key",
                            ascending |-> TRUE, in_index |-> in_index,
                            quantiles |-> k]
    /\ cpc' = "raised"
    /\ cross_raised' = "ValueError"
    /\ UNCHANGED <<cross_obj0, cross_obj>>
    /\ CrossFrame

CrossNext ==
    \/ RankOnDateByKey
    \/ QuantileOnDateByKey
    \/ QuantileRaises

SpecCross == CrossInit /\ [][CrossNext]_vars


(***************************************************************************)
(* Claims about the cross-sectional methods.                               *)
(***************************************************************************)
\* the rows of the panel passed that are selected by the call's in_index
Selected ==
    {x \in DOMAIN cross_obj0 : cross_call.in_index => cross_obj0[x].in_index = 1}

\* the selected rows of the row's group: of its date and, with the quantile's
\* key ['in_index'], of its in_index
SelectedGroup(x) ==
    {y \in Selected :
        /\ cross_obj0[y].date = cross_obj0[x].date
        /\ (cross_call.method = "quantile_on_date_by_key") =>
              cross_obj0[y].in_index = cross_obj0[x].in_index}

\* C17: with in_index=True the function is computed over the in_index == 1
\* rows of each (date, key) group alone (a rank never exceeds the number of
\* in-index rows of the group), and the new column is populated on every row
\* whose group and date have an in-index row, in the universe or out of it.
C17_PopulatedOnAllRows ==
    (cpc = "returned" /\ cross_call.in_index) =>
        /\ Len(cross_obj) = Len(cross_obj0)
        /\ \A x \in Selected :
              cross_call.method = "rank_on_date_by_key" =>
                  /\ cross_obj[x].out # Null
                  /\ cross_obj[x].out[1] <= Cardinality(SelectedGroup(x))
        /\ \A x \in DOMAIN cross_obj :
              SelectedGroup(x) # {} => cross_obj[x].out # Null

\* the distinct feature values of a set of rows
DistinctValues(G) == {cross_obj0[y].test_feature : y \in G}

\* C18: a call of quantile_on_date_by_key with k buckets raises ValueError
\* when a group has fewer than k distinct feature values, and otherwise
\* returns with the labels of every group being exactly 0..k-1.
C18_BucketsExactOrRaises ==
    (cross_call.method = "quantile_on_date_by_key") =>
        IF \E x \in Selected :
              Cardinality(DistinctValues(SelectedGroup(x))) < cross_call.quantiles
        THEN cpc = "raised" /\ cross_raised = "ValueError"
        ELSE /\ cpc = "returned"
             /\ \A x \in Selected :
                   {cross_obj[y].out : y \in SelectedGroup(x)} =
                       {Some(b) : b \in 0..(cross_call.quantiles - 1)}

\* C19: within each (date, key) group of m ranked rows the ranks are integers
\* between 1 and m, in the order of the feature (ascending, or descending
\* when ascending=False), and the smallest rank of every group is 1, also
\* when feature values tie.
C19_RanksStartAtOne ==
    (cpc = "returned" /\ cross_call.method = "rank_on_date_by_key") =>
        \A x \in Selected :
            /\ cross_obj[x].out # Null
            /\ cross_obj[x].out[1] \in 1..Cardinality(SelectedGroup(x))
            /\ \A y \in SelectedGroup(x) :
                  (IF cross_call.ascending
                   THEN cross_obj0[x].test_feature < cross_obj0[y].test_feature
                   ELSE cross_obj0[x].test_feature > cross_obj0[y].test_feature)
                      => cross_obj[x].out[1] < cross_obj[y].out[1]
            /\ \E y \in SelectedGroup(x) : cross_obj[y].out = Some(1)


(***************************************************************************)
(* A claim about the overwrite policy of the temporal join.                *)
(***************************************************************************)
\* the panel had a column of the feature's name when the call was made: the
\* call logged the warning about it
HadColumn == asof_warnings # <<>>

\* C20: when the panel already has a column of the feature's name the merge
\* completes without error, the collision being logged as a warning; the
\* output has exactly one column of that name, which holds the values merged
\* from the feature table, and no value of the old column survives.
C20_OverwritesWithWarning ==
    /\ (apc = "ready" /\ asof_existing # Null) =>
          ENABLED AsofMergeFeature
    /\ (apc = "merged" /\ HadColumn) =>
          /\ asof_warnings = <<"Overwriting existing column 'value'.">>
          /\ Cardinality({c \in DOMAIN asof_columns : asof_columns[c] = "value"}) = 1
          /\ "value_x" \notin Range(asof_columns)
          /\ "value_y" \notin Range(asof_columns)
          /\ asof_existing = Null
          /\ \A x \in DOMAIN asof_obj :
                /\ asof_obj[x].value # Some(0 - x)
                /\ asof_obj[x].value # Null =>
                      \E r \in DOMAIN feature :
                          /\ asof_obj[x].value = Some(feature[r].value)
                          /\ feature[r].security_key = asof_obj[x].security_key
                          /\ feature[r].security_key_name =
                                 asof_obj[x].security_key_name
    /\ (apc = "merged" /\ ~HadColumn) => "value" \in Range(asof_columns)

C20_Witness ==
    /\ apc = "merged"
    /\ HadColumn
    /\ \E x \in DOMAIN asof_obj : asof_obj[x].value # Null
    /\ \E x \in DOMAIN asof_obj : asof_obj[x].value = Null

(***************************************************************************)
(* _mean_center and _standardize of the analysis accessor (analysis.py).   *)
(*                                                                         *)
(* A row of the subpanel has its security, the group column gic4, a date,  *)
(* the flag in_index and the feature test_feature.  Numbers are exact: a   *)
(* centered value is a fraction num/den, a standardized value is           *)
(* num/sqrt(var) with var a fraction, and NaN is Null.  groupby().mean()   *)
(* is taken over the numeric columns, as in the pandas of the unit tests.  *)
(***************************************************************************)
MaxScaleRows == 3    \* rows of the subpanel

ScaleGroups == {1, 2}

ScaleDates == {1, 2}

ScaleValues == {1, 3}

\* the subpanels: each row is a security of its own
ScalePanels ==
    {[x \in DOMAIN rs |->
        [security_key |-> x, gic4 |-> rs[x].gic4, date |-> rs[x].date,
         in_index |-> rs[x].in_index, test_feature |-> rs[x].test_feature]] :
     rs \in SeqsUpTo([gic4 : ScaleGroups, date : ScaleDates, in_index : {0, 1},
                      test_feature : ScaleValues], MaxScaleRows) \ {<<>>}}

\* the key argument: the list ['gic4'], the empty list, or the string 'gic4'
ScaleKeys == {[is_str |-> FALSE, names |-> <<"gic4">>],
              [is_str |-> FALSE, names |-> <<>>],
              [is_str |-> TRUE, names |-> <<"gic4">>]}

\* lines 97-98 of _mean_center: a string key becomes the list of it
MeanCenterKey(key) == key.names

\* lines 128-129 of _standardize: a string key becomes the empty list
StandardizeKey(key) == IF key.is_str THEN <<>> ELSE key.names

\* the fraction n/d
Rat(n, d) == [num |-> n, den |-> d]

RatSub(a, b) == Rat(a.num * b.den - b.num * a.den, a.den * b.den)

RECURSIVE Sum(_, _)
\* the sum of f over the set S
Sum(f, S) ==
    IF S = {} THEN 0
    ELSE LET x == CHOOSE y \in S : TRUE
         IN  f[x] + Sum(f, S \ {x})

\* the rows x and y have the same values of the columns names + ['date']
SameKeyDate(obj, names, x, y) ==
    /\ obj[x].date = obj[y].date
    /\ "gic4" \in Range(names) => obj[x].gic4 = obj[y].gic4

\* a group of all the rows of the key and date, in the universe or not
WholeGroup(obj, names, x) ==
    {y \in DOMAIN obj : SameKeyDate(obj, names, x, y)}

\* subpanel[subpanel.in_index == 1].groupby(key + ['date']): the rows of the
\* group of panel_mean that the row x is merged with
InUniverse(obj, names, x) ==
    {y \in DOMAIN obj : obj[y].in_index = 1 /\ SameKeyDate(obj, names, x, y)}

\* .mean() of the feature over the rows G
Mean(obj, G) ==
    Rat(Sum([y \in G |-> obj[y].test_feature], G), Cardinality(G))

\* the row with the feature replaced
WithFeature(row, v) ==
    [security_key |-> row.security_key, gic4 |-> row.gic4, date |-> row.date,
     in_index |-> row.in_index, test_feature |-> v]

\* _mean_center(['test_feature'], subpanel, key): the inner merge with
\* panel_mean keeps the rows whose key and date have a mean, in the order of
\* the subpanel, and the mean is subtracted from the feature
MeanCenter(obj, key) ==
    LET names == MeanCenterKey(key)
        merged == [x \in DOMAIN obj |->
                     LET G == InUniverse(obj, names, x)
                     IN  IF G = {} THEN Null
                         ELSE Some(WithFeature(obj[x],
                                     RatSub(Rat(obj[x].test_feature, 1),
                                            Mean(obj, G))))]
        Matched(c) == c # Null
        kept == SelectSeq(merged, Matched)
    IN  [x \in DOMAIN kept |-> kept[x][1]]

\* a variance that divides by the number of rows
PopulationVariance(obj, G) ==
    LET n == Cardinality(G)
        s == Sum([y \in G |-> obj[y].test_feature], G)
        q == Sum([y \in G |-> obj[y].test_feature * obj[y].test_feature], G)
    IN  Some(Rat(n * q - s * s, n * n))

\* the square of series.std() over the rows G: the sample variance (ddof=1),
\* NaN for a single row
Variance(obj, G) ==
    LET n == Cardinality(G)
        s == Sum([y \in G |-> obj[y].test_feature], G)
        q == Sum([y \in G |-> obj[y].test_feature * obj[y].test_feature], G)
    IN  IF n < 2 THEN Null ELSE Some(Rat(n * q - s * s, n * (n - 1)))

\* apply_f_on_date_by_key(feature_name, std, key=key + ['in_index'],
\* suffix='_std') with in_index left at True: the rows of the universe get the
\* std of their (date, key, in_index) group, the other rows NaN
StdColumn(obj, names) ==
    [x \in DOMAIN obj |->
        IF obj[x].in_index = 1
        THEN Variance(obj, InUniverse(obj, names, x))
        ELSE Null]

\* _standardize(['test_feature'], subpanel, key): the feature divided by the
\* column of the stds; a division by NaN gives NaN
Standardize(obj, key) ==
    LET std == StdColumn(obj, StandardizeKey(key))
    IN  [x \in DOMAIN obj |->
            WithFeature(obj[x],
                IF std[x] = Null THEN Null
                ELSE Some([num |-> obj[x].test_feature, var |-> std[x][1]]))]

ScaleFrame == UNCHANGED <<walkVars, asofVars, indexVars, lagVars, crossVars, securityVars, gicVars, validateVars, resourceVars, pathVars>>

ScaleInit ==
    /\ scale_obj0 \in ScalePanels
    /\ scale_obj = <<>>
    /\ scale_call = NoScaleCall
    /\ spc = "ready"
    /\ WalkIdle
    /\ AsofIdle
    /\ IndexIdle
    /\ LagIdle
    /\ CrossIdle
    /\ SecurityIdle
    /\ GicIdle
    /\ ValidateIdle
    /\ ResourceIdle
    /\ PathIdle

\* _mean_center(['test_feature'], subpanel, key=key)
MeanCenterCall ==
    /\ spc = "ready"
    /\ \E key \in ScaleKeys :
          /\ scale_call' = [method |-> "_mean_center", key |-> key]
          /\ scale_obj' = MeanCenter(scale_obj0, key)
    /\ spc' = "returned"
    /\ UNCHANGED scale_obj0
    /\ ScaleFrame

\* _standardize(['test_feature'], subpanel, key=key)
StandardizeCall ==
    /\ spc = "ready"
    /\ \E key \in ScaleKeys :
          /\ scale_call' = [method |-> "_standardize", key |-> key]
          /\ scale_obj' = Standardize(scale_obj0, key)
    /\ spc' = "returned"
    /\ UNCHANGED scale_obj0
    /\ ScaleFrame

ScaleNext == MeanCenterCall \/ StandardizeCall

SpecScale == ScaleInit /\ [][ScaleNext]_vars

\* ---- claims about the scaling methods ----
\* the key columns the claims group by: the key list of the call, the list of
\* the string for a string key
GroupedBy == scale_call.key.names

\* the rows of the input that share key and date with the input row x
GroupOfInput(x) ==
    {y \in DOMAIN scale_obj0 :
        /\ scale_obj0[y].date = scale_obj0[x].date
        /\ "gic4" \in Range(GroupedBy) => scale_obj0[y].gic4 = scale_obj0[x].gic4}

\* those of them that are in the universe
UniverseOfInput(x) == {y \in GroupOfInput(x) : scale_obj0[y].in_index = 1}

\* the output rows of the input row x
OutputOf(x) ==
    {o \in DOMAIN scale_obj :
        /\ scale_obj[o].security_key = scale_obj0[x].security_key
        /\ scale_obj[o].date = scale_obj0[x].date}

MeanCentered == spc = "returned" /\ scale_call.method = "_mean_center"

\* C21: after _mean_center, for every key group and date the centered feature
\* of the in-universe rows sums to 0 (their mean is 0), and every row of the
\* output, in the universe or not, holds its input value less the mean of the
\* in-universe rows of its key group and date.
C21_CenteredByUniverseMean ==
    MeanCentered =>
        \A x \in DOMAIN scale_obj0 :
            LET U == UniverseOfInput(x)
                total == Sum([y \in U |-> scale_obj0[y].test_feature], U)
                outs == UNION {OutputOf(y) : y \in U}
            IN  /\ \A o \in outs : scale_obj[o].test_feature.den = Cardinality(U)
                /\ Sum([o \in outs |-> scale_obj[o].test_feature.num], outs) = 0
                /\ \A o \in OutputOf(x) :
                      LET c == scale_obj[o].test_feature
                      IN  /\ U # {}
                          /\ c.den > 0
                          /\ c.num * Cardinality(U) =
                               (scale_obj0[x].test_feature * Cardinality(U)
                                  - total) * c.den

C21_Witness ==
    /\ MeanCentered
    /\ \E x \in DOMAIN scale_obj0 : \E o \in OutputOf(x) :
          /\ scale_obj0[x].in_index = 0
          /\ scale_obj[o].test_feature.num # 0
          /\ Cardinality(UniverseOfInput(x)) = 2
          /\ \E y \in UniverseOfInput(x) : \E p \in OutputOf(y) :
                scale_obj[p].test_feature.num # 0

\* C29: _mean_center returns exactly one output row for every input row, the
\* rows whose key group and date have no in-universe row included.
C29_OneRowPerInputRow ==
    MeanCentered =>
        /\ Len(scale_obj) = Len(scale_obj0)
        /\ \A x \in DOMAIN scale_obj0 : Cardinality(OutputOf(x)) = 1

Standardized ==
    /\ spc = "returned"
    /\ scale_call.method = "_standardize"
    /\ ~scale_call.key.is_str

\* the standardized features of the in-universe rows U have the standard
\* deviation 1: each is num/sqrt(var) with one and the same var > 0, and var
\* is the sample variance of the nums
StdIsOne(U) ==
    LET outs == UNION {OutputOf(y) : y \in U}
        n == Cardinality(outs)
        cell(o) == scale_obj[o].test_feature
        s == Sum([o \in outs |-> cell(o)[1].num], outs)
        q == Sum([o \in outs |-> cell(o)[1].num * cell(o)[1].num], outs)
    IN  /\ n >= 2
        /\ \A o \in outs : cell(o) # Null
        /\ \A o \in outs :
              /\ cell(o)[1].var.num > 0
              /\ cell(o)[1].var.den > 0
              /\ (n * q - s * s) * cell(o)[1].var.den =
                     cell(o)[1].var.num * n * (n - 1)

\* C22 as stated: after _standardize with a key list, for every key group and
\* date the standardized feature has the standard deviation 1 over the
\* in-universe rows.
C22_StdIsOneInEveryGroup ==
    Standardized =>
        \A x \in DOMAIN scale_obj0 :
            UniverseOfInput(x) # {} => StdIsOne(UniverseOfInput(x))

\* the in-universe rows U have a standard deviation to divide by: they are at
\* least two and their features are not all equal
HasSpread(U) ==
    \E y \in U : \E z \in U :
        scale_obj0[y].test_feature # scale_obj0[z].test_feature

\* C22: after _standardize with a key list, the standardized feature has the
\* standard deviation 1 over the in-universe rows of every key group and date
\* that has at least two in-universe rows whose features are not all equal.
C22_StdIsOneWhereSpread ==
    Standardized =>
        \A x \in DOMAIN scale_obj0 :
            HasSpread(UniverseOfInput(x)) => StdIsOne(UniverseOfInput(x))

C22_Witness ==
    /\ Standardized
    /\ scale_call.key.names = <<"gic4">>
    /\ \E x \in DOMAIN scale_obj0 :
          /\ HasSpread(UniverseOfInput(x))
          /\ \E y \in DOMAIN scale_obj0 :
                /\ scale_obj0[y].date = scale_obj0[x].date
                /\ scale_obj0[y].gic4 # scale_obj0[x].gic4
                /\ scale_obj0[y].in_index = 1

(***************************************************************************)
(* A claim about the row count of the temporal join.                       *)
(***************************************************************************)
\* the rows of the frame that have the key and the date of the row
RowsLike(frame, row) ==
    {y \in DOMAIN frame :
        /\ frame[y].security_key = row.security_key
        /\ frame[y].security_key_name = row.security_key_name
        /\ frame[y].date = row.date}

\* C30: _asof_merge_feature preserves the panel's rows: whatever the feature
\* table (several rows for one key and date, no row for a key, no row at
\* all), the merged panel has exactly one row for every row of the panel and
\* no other row.
C30_OneRowPerPanelRow ==
    [][(apc = "ready" /\ apc' = "merged") =>
          /\ Len(asof_obj') = Len(asof_obj)
          /\ \A x \in DOMAIN asof_obj :
                Cardinality(RowsLike(asof_obj', asof_obj[x])) = 1
          /\ \A y \in DOMAIN asof_obj' : RowsLike(asof_obj, asof_obj'[y]) # {}]_vars

C30_Witness ==
    /\ apc = "merged"
    /\ Len(asof_obj) = MaxPanelRows
    /\ \E x \in DOMAIN asof_obj : asof_obj[x].value = Null
    /\ \E x \in DOMAIN asof_obj :
          /\ asof_obj[x].value # Null
          /\ \E r \in DOMAIN feature : \E q \in DOMAIN feature :
                /\ r # q
                /\ feature[r].security_key = asof_obj[x].security_key
                /\ feature[r].security_key_name = asof_obj[x].security_key_name
                /\ feature[q].security_key = feature[r].security_key
                /\ feature[q].security_key_name = feature[r].security_key_name
                /\ feature[q].date = feature[r].date
                /\ feature[r].date <= asof_obj[x].date

(***************************************************************************)
(* get_security_panel (panel_constructors.py).                             *)
(*                                                                         *)
(* A frequency is a number of days: pd.date_range(since, until, freq)      *)
(* gives the days of since..until that the frequency falls on.             *)
(***************************************************************************)
MaxSecurityDate == 3   \* since and until are days of 1..MaxSecurityDate
MaxGivenKeys == 2      \* length of the cusips and of the sedols list

\* the identifiers a list is made of; a list may name one twice
GivenKeys == {"000000000", "000000001"}

Frequencies == {1, 2}

\* pd.date_range(since, until, freq=frequency), ascending
DateRange(since, until, frequency) ==
    SortSet({t \in since..until : t % frequency = 0})

\* the frame of itertools.product(keys, dates): key by key, date by date
ProductFrame(name, keys, range) ==
    [x \in 1..(Len(keys) * Len(range)) |->
        [security_key_name |-> name,
         security_key |-> keys[((x - 1) \div Len(range)) + 1],
         date |-> range[((x - 1) % Len(range)) + 1]]]

\* a test that looks at the cusips alone
NoCusips(cusips, sedols) == cusips = <<>>

\* lines 15, 20, 25 and 30: no frame was built, dfs is empty, when both lists
\* are empty
NoFrames(cusips, sedols) == cusips = <<>> /\ sedols = <<>>

\* lines 26-29: the frames concatenated, with the column in_index = 1
Concatenated(args) ==
    LET range == DateRange(args.since, args.until, args.frequency)
        dfs == ProductFrame("cusip", args.cusips, range)
                  \o ProductFrame("sedol", args.sedols, range)
    IN  [x \in DOMAIN dfs |->
            [security_key_name |-> dfs[x].security_key_name,
             security_key |-> dfs[x].security_key,
             date |-> dfs[x].date,
             in_index |-> 1]]

SecurityFrame == UNCHANGED <<walkVars, asofVars, indexVars, lagVars, crossVars, scaleVars, gicVars, validateVars, resourceVars, pathVars>>

SecurityInit ==
    /\ security_args \in [since : 1..MaxSecurityDate, until : 1..MaxSecurityDate,
                          cusips : SeqsUpTo(GivenKeys, MaxGivenKeys),
                          sedols : SeqsUpTo(GivenKeys, MaxGivenKeys),
                          frequency : Frequencies]
    /\ security_panel = <<>>
    /\ security_raised = ""
    /\ secpc = "ready"
    /\ WalkIdle
    /\ AsofIdle
    /\ IndexIdle
    /\ LagIdle
    /\ CrossIdle
    /\ ScaleIdle
    /\ GicIdle
    /\ ValidateIdle
    /\ ResourceIdle
    /\ PathIdle

\* get_security_panel returns the panel
GetSecurityPanel ==
    /\ secpc = "ready"
    /\ ~NoFrames(security_args.cusips, security_args.sedols)
    /\ security_panel' = Concatenated(security_args)
    /\ secpc' = "returned"
    /\ UNCHANGED <<security_args, security_raised>>
    /\ SecurityFrame

\* get_security_panel raises ValueError("You must pass cusips or sedols.")
GetSecurityPanelRaises ==
    /\ secpc = "ready"
    /\ NoFrames(security_args.cusips, security_args.sedols)
    /\ security_raised' = "ValueError"
    /\ secpc' = "raised"
    /\ UNCHANGED <<security_args, security_panel>>
    /\ SecurityFrame

SecurityNext == GetSecurityPanel \/ GetSecurityPanelRaises

SpecSecurity == SecurityInit /\ [][SecurityNext]_vars

\* ---- a claim about get_security_panel ----
\* the days of the requested range
RequestedDates ==
    {t \in security_args.since..security_args.until :
        t % security_args.frequency = 0}

\* the rows of the panel for the identifier and the day
PanelRows(name, key, t) ==
    {x \in DOMAIN security_panel :
        /\ security_panel[x].security_key_name = name
        /\ security_panel[x].security_key = key
        /\ security_panel[x].date = t}

\* the positions at which the list gives the identifier
Given(list, key) == {p \in DOMAIN list : list[p] = key}

Distinct(list) ==
    \A p \in DOMAIN list : \A q \in DOMAIN list : list[p] = list[q] => p = q

\* C24: get_security_panel raises ValueError exactly when both cusips and
\* sedols are empty; otherwise the panel has one row for every given
\* identifier and every day of the requested range, and no other row, each
\* with in_index = 1, so that (security_key_name, security_key, date) is
\* unique when the identifiers of each list are distinct.
C24_RaisesOrOneRowPerKeyAndDate ==
    /\ secpc = "ready" =>
          /\ ENABLED GetSecurityPanelRaises <=>
                (security_args.cusips = <<>> /\ security_args.sedols = <<>>)
          /\ ENABLED GetSecurityPanel <=> ~ENABLED GetSecurityPanelRaises
    /\ secpc = "raised" =>
          /\ security_raised = "ValueError"
          /\ security_args.cusips = <<>>
          /\ security_args.sedols = <<>>
    /\ secpc = "returned" =>
          /\ security_raised = ""
          /\ security_args.cusips # <<>> \/ security_args.sedols # <<>>
          /\ \A x \in DOMAIN security_panel : security_panel[x].in_index = 1
          /\ \A key \in GivenKeys : \A t \in 1..MaxSecurityDate :
                /\ Cardinality(PanelRows("cusip", key, t)) =
                     IF t \in RequestedDates
                     THEN Cardinality(Given(security_args.cusips, key)) ELSE 0
                /\ Cardinality(PanelRows("sedol", key, t)) =
                     IF t \in RequestedDates
                     THEN Cardinality(Given(security_args.sedols, key)) ELSE 0
          /\ \A x \in DOMAIN security_panel :
                security_panel[x].security_key_name \in {"cusip", "sedol"}
          /\ (Distinct(security_args.cusips) /\ Distinct(security_args.sedols)) =>
                \A x \in DOMAIN security_panel : \A y \in DOMAIN security_panel :
                    (/\ security_panel[x].security_key_name =
                          security_panel[y].security_key_name
                     /\ security_panel[x].security_key = security_panel[y].security_key
                     /\ security_panel[x].date = security_panel[y].date) => x = y

C24_Witness ==
    /\ secpc = "returned"
    /\ security_args.cusips = <<>>
    /\ Len(security_args.sedols) = MaxGivenKeys
    /\ Distinct(security_args.sedols)
    /\ Cardinality(RequestedDates) >= 2
    /\ Len(security_panel) = MaxGivenKeys * Cardinality(RequestedDates)

(***************************************************************************)
(* get_gic_panel (panel_constructors.py).                                  *)
(*                                                                         *)
(* The index panel and its gic codes come from the databases: a row has    *)
(* its security, a date, a gic code (a sequence of digits) and an          *)
(* index_weight, which is null or a number >= 0 (0 for a security that is  *)
(* not in the index on the date).  A renormalized weight is a fraction.    *)
(***************************************************************************)
MaxGicRows == 2      \* rows of the index panel
MaxWeight == 2       \* index weights are 0..MaxWeight

GicDates == {1, 2}

\* the gic codes of the securities
GicCodes == {<<2, 5, 1, 0>>, <<2, 5, 2, 0>>, <<4, 0, 1, 0>>}

\* the gic argument: '' (no filter), a sector or an industry group
GicFilters == {<<>>, <<2, 5>>, <<2, 5, 1, 0>>}

\* the index argument
IndexArguments == {"sp_500", "sp_1500", "sp_1200"}

\* the panels get_sp_500_panel(...).features.gic_code() can give
GicSources ==
    {[x \in DOMAIN rs |->
        [security_key |-> x, date |-> rs[x].date, gic |-> rs[x].gic,
         index_weight |-> rs[x].index_weight]] :
     rs \in SeqsUpTo([date : GicDates, gic : GicCodes,
                      index_weight : {Null} \cup {Some(w) : w \in 0..MaxWeight}],
                     MaxGicRows)}

\* lines 256-265: the indices the function has a panel for
Supported(index) == index \in {"sp_500", "sp_1500"}

\* lines 267-268: the rows whose gic code starts with the gic asked for; an
\* empty gic keeps every row
GicFiltered(source, gic) ==
    LET Starts(row) == SubSeq(row.gic, 1, Len(gic)) = gic
    IN  IF gic = <<>> THEN source ELSE SelectSeq(source, Starts)

\* panel.groupby('date').sum()['index_weight'] for the date: nulls are skipped
WeightSum(rows, t) ==
    LET on == {x \in DOMAIN rows : rows[x].date = t /\ rows[x].index_weight # Null}
    IN  Sum([x \in on |-> rows[x].index_weight[1]], on)

\* lines 270-277: each weight divided by the sum of its date; NaN / s and 0 / 0
\* are NaN
Renormalized(rows) ==
    [x \in DOMAIN rows |->
        [security_key |-> rows[x].security_key, date |-> rows[x].date,
         gic |-> rows[x].gic,
         index_weight |->
            IF rows[x].index_weight = Null \/ WeightSum(rows, rows[x].date) = 0
            THEN Null
            ELSE Some(Rat(rows[x].index_weight[1], WeightSum(rows, rows[x].date)))]]

\* the weights kept as they are, as fractions
NotRenormalized(rows) ==
    [x \in DOMAIN rows |->
        [security_key |-> rows[x].security_key, date |-> rows[x].date,
         gic |-> rows[x].gic,
         index_weight |->
            IF rows[x].index_weight = Null THEN Null
            ELSE Some(Rat(rows[x].index_weight[1], 1))]]

GicFrame == UNCHANGED <<walkVars, asofVars, indexVars, lagVars, crossVars, scaleVars, securityVars, validateVars, resourceVars, pathVars>>

GicInit ==
    /\ gic_args \in [index : IndexArguments, gic : GicFilters,
                     renormalize_weights : BOOLEAN]
    /\ gic_source \in GicSources
    /\ gic_panel = <<>>
    /\ gic_raised = ""
    /\ gpc = "ready"
    /\ WalkIdle
    /\ AsofIdle
    /\ IndexIdle
    /\ LagIdle
    /\ CrossIdle
    /\ ScaleIdle
    /\ SecurityIdle
    /\ ValidateIdle
    /\ ResourceIdle
    /\ PathIdle

\* get_gic_panel returns the panel
GetGicPanel ==
    /\ gpc = "ready"
    /\ Supported(gic_args.index)
    /\ LET panel_ == GicFiltered(gic_source, gic_args.gic)
       IN  gic_panel' = IF gic_args.renormalize_weights
                        THEN Renormalized(panel_)
                        ELSE NotRenormalized(panel_)
    /\ gpc' = "returned"
    /\ UNCHANGED <<gic_args, gic_source, gic_raised>>
    /\ GicFrame

\* get_gic_panel raises ValueError('Index ... not supported.')
GetGicPanelRaises ==
    /\ gpc = "ready"
    /\ ~Supported(gic_args.index)
    /\ gic_raised' = "ValueError"
    /\ gpc' = "raised"
    /\ UNCHANGED <<gic_args, gic_source, gic_panel>>
    /\ GicFrame

GicNext == GetGicPanel \/ GetGicPanelRaises

SpecGic == GicInit /\ [][GicNext]_vars

\* ---- a claim about get_gic_panel ----
\* the rows of the returned panel on the date that have a weight
Weighted(t) ==
    {x \in DOMAIN gic_panel :
        gic_panel[x].date = t /\ gic_panel[x].index_weight # Null}

\* C23: with renormalize_weights=True the index_weight values of the rows of
\* the returned panel sum to 1 on every date the panel has a row of, also
\* when the gic filter has removed rows.
C23_WeightsSumToOne ==
    (gpc = "returned" /\ gic_args.renormalize_weights) =>
        \A y \in DOMAIN gic_panel :
            LET on == Weighted(gic_panel[y].date)
            IN  \E s \in 1..(MaxGicRows * MaxWeight) :
                   /\ \A x \in on : gic_panel[x].index_weight[1].den = s
                   /\ Sum([x \in on |-> gic_panel[x].index_weight[1].num], on) = s

(***************************************************************************)
(* AnalysisAccessor._validate (analysis.py).                               *)
(***************************************************************************)
\* the columns a table may have
TableColumns == {"security_key", "security_key_name", "date", "in_index",
                 "test_feature", "group"}

\* line 31: 'security_key' not in obj.columns and 'security_key_name' not in
\* obj.columns
KeyColumnsMissing(columns) ==
    "security_key" \notin columns /\ "security_key_name" \notin columns

\* lines 33-34: the warning about a missing date column
DateWarnings(columns) ==
    IF "date" \notin columns
    THEN <<"No 'date' in dataframe. Won't be able to asof merge.">>
    ELSE <<>>

ValidateFrame == UNCHANGED <<walkVars, asofVars, indexVars, lagVars, crossVars, scaleVars, securityVars, gicVars, resourceVars, pathVars>>

ValidateInit ==
    /\ validate_columns \in SUBSET TableColumns
    /\ validate_raised = ""
    /\ validate_warnings = <<>>
    /\ vpc = "ready"
    /\ WalkIdle
    /\ AsofIdle
    /\ IndexIdle
    /\ LagIdle
    /\ CrossIdle
    /\ ScaleIdle
    /\ SecurityIdle
    /\ GicIdle
    /\ ResourceIdle
    /\ PathIdle

\* _validate returns, after the warning if the date column is missing
ValidateReturns ==
    /\ vpc = "ready"
    /\ ~KeyColumnsMissing(validate_columns)
    /\ validate_warnings' = validate_warnings \o DateWarnings(validate_columns)
    /\ vpc' = "returned"
    /\ UNCHANGED <<validate_columns, validate_raised>>
    /\ ValidateFrame

\* _validate raises AttributeError("Must have security key columns.")
ValidateRaises ==
    /\ vpc = "ready"
    /\ KeyColumnsMissing(validate_columns)
    /\ validate_raised' = "AttributeError"
    /\ vpc' = "raised"
    /\ UNCHANGED <<validate_columns, validate_warnings>>
    /\ ValidateFrame

ValidateNext == ValidateReturns \/ ValidateRaises

SpecValidate == ValidateInit /\ [][ValidateNext]_vars

\* C25: _validate raises AttributeError when the table lacks the security_key
\* column or lacks the security_key_name column; a missing date column is no
\* error and only logs a warning.
C25_RaisesWhenAKeyColumnIsMissing ==
    /\ vpc = "returned" =>
          /\ "security_key" \in validate_columns
          /\ "security_key_name" \in validate_columns
          /\ "date" \notin validate_columns <=> validate_warnings # <<>>
    /\ vpc = "raised" =>
          /\ validate_raised = "AttributeError"
          /\ "security_key" \notin validate_columns
                \/ "security_key_name" \notin validate_columns

(***************************************************************************)
(* ResourceManager (resource.py): a Borg whose instances share one state,  *)
(* with the lazily constructed resources qad, compustat and fred.          *)
(*                                                                         *)
(* Threads of one process call ResourceManager() and read its properties.  *)
(* A thread can be preempted between any two statements: between the       *)
(* hasattr test and the assignment of __init__, and between the membership *)
(* test, the constructor call and the store of a property.  An object is   *)
(* the number of its construction.                                         *)
(***************************************************************************)
NumThreads == 2      \* threads of the process
MaxCalls == 3        \* instantiations and accesses a thread makes

Threads == 1..NumThreads

ResourceNames == {"qad", "compustat", "fred"}

\* the thread's record with some fields replaced
Moved(t, pc, resource, obj) ==
    [threads EXCEPT ![t] = [pc |-> pc, resource |-> resource, obj |-> obj,
                            instantiated |-> threads[t].instantiated,
                            calls |-> threads[t].calls]]

\* the thread begins a call: another call has one more call made
Began(t, pc, resource) ==
    [threads EXCEPT ![t] = [pc |-> pc, resource |-> resource, obj |-> 0,
                            instantiated |-> threads[t].instantiated,
                            calls |-> threads[t].calls + 1]]

\* some other thread is in the middle of a call
OthersRunning(t) == \E u \in Threads \ {t} : threads[u].pc # "idle"

\* an access that never finds the resource stored
NeverStored(res, name) == FALSE

\* "qad" not in self.resources, negated
Stored(res, name) == name \in DOMAIN res

\* self.resources[name] = obj
WithResource(res, name, obj) ==
    [n \in DOMAIN res \cup {name} |-> IF n = name THEN obj ELSE res[n]]

ResourceFrame == UNCHANGED <<walkVars, asofVars, indexVars, lagVars, crossVars, scaleVars, securityVars, gicVars, validateVars, pathVars>>

ResourceInit ==
    /\ enabled_modules \in SUBSET ResourceNames
    /\ has_resources = FALSE
    /\ resources = <<>>
    /\ threads = [t \in Threads |-> NoThread]
    /\ constructed = [n \in ResourceNames |-> 0]
    /\ returned = {}
    /\ resource_raised = {}
    /\ overlapped = FALSE
    /\ WalkIdle
    /\ AsofIdle
    /\ IndexIdle
    /\ LagIdle
    /\ CrossIdle
    /\ ScaleIdle
    /\ SecurityIdle
    /\ GicIdle
    /\ ValidateIdle
    /\ PathIdle

\* ResourceManager(), lines 61-63: Borg.__init__ and the hasattr test
Instantiate(t) ==
    /\ threads[t].pc = "idle"
    /\ threads[t].calls < MaxCalls
    /\ threads' = [Began(t, IF has_resources THEN "idle" ELSE "init_set", "")
                      EXCEPT ![t].instantiated = has_resources]
    /\ overlapped' = (overlapped \/ OthersRunning(t))
    /\ UNCHANGED <<enabled_modules, has_resources, resources, constructed,
                   returned, resource_raised>>
    /\ ResourceFrame

\* line 64: self.resources = dict()
SetResources(t) ==
    /\ threads[t].pc = "init_set"
    /\ has_resources' = TRUE
    /\ resources' = <<>>
    /\ threads' = [Moved(t, "idle", "", 0) EXCEPT ![t].instantiated = TRUE]
    /\ UNCHANGED <<enabled_modules, constructed, returned, resource_raised,
                   overlapped>>
    /\ ResourceFrame

\* a property is read: the module is enabled and the membership test is made
Access(t, name) ==
    /\ threads[t].pc = "idle"
    /\ threads[t].instantiated
    /\ threads[t].calls < MaxCalls
    /\ name \in enabled_modules
    /\ threads' = Began(t, IF Stored(resources, name) THEN "load" ELSE "construct",
                        name)
    /\ overlapped' = (overlapped \/ OthersRunning(t))
    /\ UNCHANGED <<enabled_modules, has_resources, resources, constructed,
                   returned, resource_raised>>
    /\ ResourceFrame

\* a property of a module that is not enabled is read
AccessDisabled(t, name) ==
    /\ threads[t].pc = "idle"
    /\ threads[t].instantiated
    /\ threads[t].calls < MaxCalls
    /\ name \notin enabled_modules
    /\ threads' = Began(t, "idle", "")
    /\ resource_raised' = resource_raised \cup
          {[thread |-> t, resource |-> name,
            exception |-> "ModuleNotEnabledException"]}
    /\ overlapped' = (overlapped \/ OthersRunning(t))
    /\ UNCHANGED <<enabled_modules, has_resources, resources, constructed, returned>>
    /\ ResourceFrame

\* qad = QAD(): the constructor runs
Construct(t) ==
    /\ threads[t].pc = "construct"
    /\ constructed' = [constructed EXCEPT ![threads[t].resource] = @ + 1]
    /\ threads' = Moved(t, "store", threads[t].resource,
                        constructed[threads[t].resource] + 1)
    /\ UNCHANGED <<enabled_modules, has_resources, resources, returned,
                   resource_raised, overlapped>>
    /\ ResourceFrame

\* self.resources["qad"] = qad; return qad
StoreAndReturn(t) ==
    /\ threads[t].pc = "store"
    /\ resources' = WithResource(resources, threads[t].resource, threads[t].obj)
    /\ returned' = returned \cup {[thread |-> t, resource |-> threads[t].resource,
                                  obj |-> threads[t].obj]}
    /\ threads' = Moved(t, "idle", "", 0)
    /\ UNCHANGED <<enabled_modules, has_resources, constructed, resource_raised,
                   overlapped>>
    /\ ResourceFrame

\* qad = self.resources["qad"]; return qad
LoadAndReturn(t) ==
    /\ threads[t].pc = "load"
    /\ threads[t].resource \in DOMAIN resources
    /\ returned' = returned \cup
          {[thread |-> t, resource |-> threads[t].resource,
            obj |-> resources[threads[t].resource]]}
    /\ threads' = Moved(t, "idle", "", 0)
    /\ UNCHANGED <<enabled_modules, has_resources, resources, constructed,
                   resource_raised, overlapped>>
    /\ ResourceFrame

\* qad = self.resources["qad"] when the dictionary has been replaced meanwhile
LoadFails(t) ==
    /\ threads[t].pc = "load"
    /\ threads[t].resource \notin DOMAIN resources
    /\ resource_raised' = resource_raised \cup
          {[thread |-> t, resource |-> threads[t].resource,
            exception |-> "KeyError"]}
    /\ threads' = Moved(t, "idle", "", 0)
    /\ UNCHANGED <<enabled_modules, has_resources, resources, constructed,
                   returned, overlapped>>
    /\ ResourceFrame

ResourceNext ==
    \E t \in Threads :
        \/ Instantiate(t)
        \/ SetResources(t)
        \/ \E name \in ResourceNames : Access(t, name)
        \/ \E name \in ResourceNames : AccessDisabled(t, name)
        \/ Construct(t)
        \/ StoreAndReturn(t)
        \/ LoadAndReturn(t)
        \/ LoadFails(t)

SpecResource == ResourceInit /\ [][ResourceNext]_vars

\* ---- a claim about the resource manager ----
\* the constructor of each resource has run at most once, every access to it
\* has returned one and the same object, and no access has failed on the
\* dictionary
OneObjectPerResource ==
    /\ \A name \in ResourceNames : constructed[name] <= 1
    /\ \A a \in returned : \A b \in returned :
          a.resource = b.resource => a.obj = b.obj
    /\ \A e \in resource_raised : e.exception # "KeyError"

\* C28 as stated: in every interleaving of instantiations and accesses, two
\* threads making the first access concurrently included, a resource's
\* constructor runs at most once and every access returns that same object.
C28_OneObjectInEveryInterleaving == OneObjectPerResource

\* C28: as long as the calls are made one at a time (no instantiation or access
\* begins while another thread's is running), a resource's constructor runs at
\* most once and every access returns that same object.
C28_OneObjectWhenCallsDoNotOverlap == ~overlapped => OneObjectPerResource

C28_Witness ==
    /\ ~overlapped
    /\ \E a \in returned : \E b \in returned :
          /\ a.thread # b.thread
          /\ a.resource = b.resource
          /\ a.obj = b.obj
          /\ constructed[a.resource] = 1

(***************************************************************************)
(* A claim about the termination of generate_dates.                        *)
(***************************************************************************)
\* the distinct dates of the panel, ascending
PanelDates == SortSet({panel0[x].date : x \in DOMAIN panel0})

\* C27: generate_dates visits the distinct dates of the panel one by one in
\* ascending order (the index goes up by one at every step and never beyond
\* the number of dates), the windows it emits have strictly increasing
\* present dates, a window's present date being the date visited, it is
\* exhausted after at most len(dates) steps whatever prediction_steps and
\* burn_in_steps are, and once exhausted it yields no further window.
C27_VisitsEachDateOnceAndTerminates ==
    /\ [](/\ i <= Len(PanelDates)
          /\ Len(date_infos) <= i
          /\ \A x \in DOMAIN date_infos : \A y \in DOMAIN date_infos :
                x < y => date_infos[x].present_date < date_infos[y].present_date
          /\ \A x \in DOMAIN date_infos :
                \E k \in 1..i : date_infos[x].present_date = PanelDates[k])
    /\ [][/\ i' # i => (wpc = "generate" /\ i' = i + 1)
          /\ date_infos' # date_infos =>
                /\ wpc = "generate"
                /\ i' = i + 1
                /\ Len(date_infos') = Len(date_infos) + 1
                /\ SubSeq(date_infos', 1, Len(date_infos)) = date_infos
                /\ date_infos'[Len(date_infos')].present_date = PanelDates[i + 1]
          /\ wpc # "generate" => wpc' # "generate"]_vars
    /\ <>(wpc # "generate" /\ i = Len(PanelDates))

C27_Witness ==
    /\ wpc # "generate"
    /\ i = MaxDate
    /\ Len(date_infos) = 2
    /\ burn_in_steps = 1
    /\ prediction_steps = 1

(***************************************************************************)
(* The serial and the Spark path of apply_time_windowed_functions          *)
(* (analysis.py), run on the same panel, parameters and functions.         *)
(*                                                                         *)
(* A registered function is named by what it does: "returns_slices"        *)
(* returns the slices it receives, "subtract_min" modifies them in place,  *)
(* as subtract_min_from_feature of the unit test does, and returns them.   *)
(* A result is the value the function returned, taken when it returned.    *)
(***************************************************************************)
PathFunctions == {"returns_slices", "subtract_min"}

RECURSIVE GeneratedFrom(_, _, _, _)
\* the windows generate_dates yields from the index idx on (burn_in_steps = 0,
\* train_lt = '')
GeneratedFrom(ds, idx, p, lb) ==
    IF idx >= Len(ds) THEN <<>>
    ELSE (IF EmitCondition(idx, ds, p, 0)
          THEN <<DateInfo(idx, ds, p, lb, "")>> ELSE <<>>)
         \o GeneratedFrom(ds, idx + 1, p, lb)

\* the elements of to_run: each window with its three slices
SplitWindows(args) ==
    LET infos == GeneratedFrom(SortedDates(args.df), 0, args.prediction_steps,
                               args.lookback)
    IN  [w \in DOMAIN infos |-> temporal_split_panel(args.df, infos[w])]

\* the element of to_run after the function has run on it
AfterCall(function, window) ==
    IF function = "subtract_min"
    THEN [info    |-> window.info,
          past    |-> SubtractMin(window.past),
          present |-> SubtractMin(window.present),
          future  |-> SubtractMin(window.future)]
    ELSE window

\* map(function, to_run): the values the function returns
Mapped(function, windows) ==
    [w \in DOMAIN windows |-> AfterCall(function, windows[w])]

\* results with the list of the function's name set
WithResult(res, name, list) ==
    [n \in DOMAIN res \cup {name} |-> IF n = name THEN list ELSE res[n]]

RECURSIVE SerialFrom(_, _, _, _)
\* lines 309-315: every function is mapped over the one list to_run, whose
\* elements keep what the functions before did to them
SerialFrom(fs, k, windows, res) ==
    IF k > Len(fs) THEN res
    ELSE SerialFrom(fs, k + 1, Mapped(fs[k], windows),
                    WithResult(res, fs[k], Mapped(fs[k], windows)))

RECURSIVE SparkFrom(_, _, _, _)
\* lines 295-301: to_run is an RDD that is not cached, so every
\* to_run.map(function).collect() splits the panel anew
SparkFrom(fs, k, args, res) ==
    IF k > Len(fs) THEN res
    ELSE SparkFrom(fs, k + 1, args,
                   WithResult(res, fs[k],
                              Mapped(fs[k], SplitWindows(args))))

PathFrame == UNCHANGED <<walkVars, asofVars, indexVars, lagVars, crossVars, scaleVars, securityVars, gicVars, validateVars, resourceVars>>

PathInit ==
    /\ path_args \in [df : Panels, prediction_steps : 0..MaxPred,
                      lookback : Lookbacks,
                      functions : SeqsUpTo(PathFunctions, MaxFns)]
    /\ serial_results = Null
    /\ spark_results = Null
    /\ WalkIdle
    /\ AsofIdle
    /\ IndexIdle
    /\ LagIdle
    /\ CrossIdle
    /\ ScaleIdle
    /\ SecurityIdle
    /\ GicIdle
    /\ ValidateIdle
    /\ ResourceIdle

\* apply_time_windowed_functions_serial(functions, [], ...)
ApplySerial ==
    /\ serial_results = Null
    /\ serial_results' = Some(SerialFrom(path_args.functions, 1,
                                         SplitWindows(path_args), <<>>))
    /\ UNCHANGED <<path_args, spark_results>>
    /\ PathFrame

\* apply_time_windowed_functions_spark(functions, [], ...)
ApplySpark ==
    /\ spark_results = Null
    /\ spark_results' = Some(SparkFrom(path_args.functions, 1, path_args, <<>>))
    /\ UNCHANGED <<path_args, serial_results>>
    /\ PathFrame

PathNext == ApplySerial \/ ApplySpark

SpecPath == PathInit /\ [][PathNext]_vars

\* ---- a claim about the two paths ----
\* C26: for the same panel, functions, args and parameters the Spark path and
\* the serial path give, for every function name, the same collection of
\* per-window results up to order, functions that modify in place the slices
\* they receive included.
C26_SamePerWindowResults ==
    (serial_results # Null /\ spark_results # Null) =>
        /\ DOMAIN serial_results[1] = DOMAIN spark_results[1]
        /\ \A n \in DOMAIN serial_results[1] :
              /\ Len(serial_results[1][n]) = Len(spark_results[1][n])
              /\ Range(serial_results[1][n]) = Range(spark_results[1][n])

==========================================================================
